---- MODULE Spec2Model ----
(***************************************************************************)
(* Model of the acquisition / deduplication pipeline, the rate-limited     *)
(* API client and the comparative-analysis clustering of the autonomous    *)
(* research agent.                                                         *)
(*                                                                         *)
(* Encoding of Python values:                                              *)
(*   - an Optional[str] field holds the string "None" for None, "" for the *)
(*     empty string, or a non-empty string; Truthy is Python truthiness;   *)
(*   - year is a natural number, 0 standing for a falsy year (None or 0);  *)
(*   - a title is a sequence of one-character strings, so that             *)
(*     _normalize_title is computed character by character;                *)
(*   - keywords / categories are Python lists: sequences of strings.       *)
(***************************************************************************)
EXTENDS Integers, Sequences, FiniteSets, TLC

VARIABLES
    \* ---- AcquisitionManager (acquisition_manager.py) ----
    pc,             \* position inside acquire_papers / the pure-function harness
    hashOrder,      \* iteration order of Python sets in this process ("fwd" / "rev")
    all_papers,     \* acquire_papers: all_papers (input of _deduplicate_papers)
    unique_papers,  \* _deduplicate_papers: unique_papers (the survivors)
    groups,         \* ghost: groups[s] = indices of all_papers merged into survivor s
    merge_log,      \* result of the last direct application of _merge_paper_info
    max_papers,     \* AcquisitionManager.max_papers
    pubmed_client,  \* TRUE iff AcquisitionManager.pubmed_client is configured
    domain,         \* structured_query.domain
    arxiv_resp,     \* what ArxivClient.search does for this query
    ss_resp,        \* what SemanticScholarClient.search does for this query
    pubmed_resp,    \* what PubMedClient.search does for this query
    papers_per_source, \* acquire_papers: papers_per_source
    paper_ids,      \* AcquisitionManager.paper_ids
    enrich_log,     \* ghost: the enrichment tasks in completion order
    result,         \* the list acquire_papers returns
    \* ---- APIClient (api_client.py) ----
    rate_limit,         \* APIClient.rate_limit
    now,                \* the clock, in seconds (time.time())
    request_timestamps, \* APIClient.request_timestamps
    issued,             \* ghost: per request, the timestamp recorded for it
                        \* and the time at which it was actually sent
    \* ---- ComparativeAnalysis (comparative_analysis.py) ----
    findings,           \* all_findings, flattened over the papers
    similarity_matrix,  \* similarity_matrix[i][j], in tenths
    clusters,           \* the list _cluster_findings returns
    methodologies,      \* compare_methodologies: the list of score dicts
    comparison,         \* the dict compare_methodologies returns
    \* ---- ResearchPipeline, ChangelogManager ----
    query,              \* process_query: query, a list of text pieces
    project_id,         \* the project of the current call
    changelog_file,     \* per project, the entries its changelog file holds
    entries,            \* ChangelogManager.entries of the current call
    clock,              \* datetime.now()
    clock_set_back,     \* TRUE once the local clock has been set back
    paper_count,        \* process_query: len(papers)
    outcome,            \* how the last pipeline call ended
    via_resume,         \* TRUE iff process_query runs inside resume_research
    original_query,     \* ghost: the query the first process_query was given
    status,             \* what get_project_status returned
    \* ---- AnalysisManager.analyze ----
    analyzed_papers,    \* what _analyze_papers returned, per paper
    raising,            \* the sub-steps that raise when they are run
    analysis_results,    \* what analyze returns or raises
    \* ---- APIClient requests (api_client.py, semantic_scholar.py) ----
    retry_attempts,     \* APIClient.retry_attempts
    responses,          \* the status the server answers to each attempt of the request
    retry_after,        \* the Retry-After header of a 429 answer
    operation,          \* the client operation called: search or get_paper
    caller_sees,        \* what the operation returns or raises to its caller
    \* ---- compare_numerical_results (comparative_analysis.py) ----
    numeric_papers,     \* the papers given to compare_numerical_results, each its findings
    numeric_comparison,  \* what compare_numerical_results returned
    \* ---- _enrich_paper on one survivor (acquisition_manager.py) ----
    survivor,           \* the paper given to _enrich_paper
    by_doi_answer,      \* what get_paper answers to the lookup by DOI
    by_id_answer,       \* what get_paper answers to the lookup by arXiv id
    enriched,           \* what _enrich_paper returned
    \* ---- QueryProcessor._identify_domain (query_processor.py) ----
    top_domain,         \* the label the zero-shot classifier ranks first
    confidence,         \* the score of that label, in tenths
    \* ---- threads inside APIClient._check_rate_limit (api_client.py) ----
    worker_pc,          \* where each calling thread stands in _check_rate_limit
    worker_time,        \* current_time of each calling thread
    worker_list,        \* the pruned list each thread has built and not yet stored
    worker_wake,        \* the time at which the sleep of each thread ends
    \* ---- ChangelogManager instances on one project file (changelog_manager.py) ----
    shared_file,        \* the entries stored in the file of the project
    manager_loaded,     \* whether each ChangelogManager has been constructed
    manager_entries,    \* self.entries of each ChangelogManager
    added,              \* how many add_entry calls were made on the project
    \* ---- successive acquire_papers calls on one AcquisitionManager ----
    calls,              \* how many acquire_papers calls were started on the manager
    first_result       \* what the first acquire_papers call returned

dedupVars == <<all_papers, unique_papers, groups>>
worldVars == <<hashOrder, max_papers, pubmed_client, domain,
               arxiv_resp, ss_resp, pubmed_resp>>
acqVars == <<pc, dedupVars, merge_log, worldVars, papers_per_source, paper_ids,
             enrich_log, result>>

rateVars == <<rate_limit, now, request_timestamps, issued>>
clusterVars == <<findings, similarity_matrix, clusters>>

methVars == <<methodologies, comparison>>

\* the variables of the analysis, pipeline and client specifications
pipeVars == <<query, project_id, changelog_file, entries, clock,
              clock_set_back, paper_count,
              outcome, via_resume, original_query, status>>
analysisVars == <<analyzed_papers, raising, analysis_results>>
clientVars == <<retry_attempts, responses, retry_after, operation, caller_sees>>
numericVars == <<numeric_papers, numeric_comparison>>
enrichVars == <<survivor, by_doi_answer, by_id_answer, enriched>>
classifyVars == <<top_domain, confidence>>
workerVars == <<worker_pc, worker_time, worker_list, worker_wake>>
changelogVars == <<shared_file, manager_loaded, manager_entries, added>>
repeatVars == <<calls, first_result>>
laterVars == <<methVars, pipeVars, analysisVars, clientVars, numericVars, enrichVars, classifyVars, workerVars, changelogVars, repeatVars>>

nonAcqVars == <<rateVars, clusterVars, laterVars>>
nonRateVars == <<acqVars, clusterVars, laterVars>>
nonClusterVars == <<acqVars, rateVars, laterVars>>

\* everything of the acquisition, rate limiter and clustering but pc
earlyVars == <<dedupVars, merge_log, worldVars, papers_per_source, paper_ids,
               enrich_log, result, rateVars, clusterVars>>

vars == <<acqVars, rateVars, clusterVars, laterVars>>

-----------------------------------------------------------------------------
(* Bounds of the model *)

\* longest list handed to _deduplicate_papers by SpecDedup
MaxInput == 3

-----------------------------------------------------------------------------
(* Generic helpers *)

Range(s) == {s[i] : i \in DOMAIN s}

Max2(a, b) == IF a > b THEN a ELSE b

RECURSIVE SeqOfSet(_)
\* some enumeration of the finite set S
SeqOfSet(S) ==
    IF S = {} THEN <<>>
    ELSE LET x == CHOOSE y \in S : TRUE IN <<x>> \o SeqOfSet(S \ {x})

Reverse(s) == [i \in 1..Len(s) |-> s[Len(s) + 1 - i]]

\* Python: list(set(xs)). The list holds each element once, in the set's
\* iteration order, which is fixed per process (hash seed) but unspecified.
ListOfSet(xs) ==
    IF hashOrder = "fwd" THEN SeqOfSet(Range(xs)) ELSE Reverse(SeqOfSet(Range(xs)))

\* Python truthiness of an Optional[str]
Truthy(v) == v \notin {"None", ""}

\* Python truthiness of an Optional[int]
TruthyInt(n) == n # 0

-----------------------------------------------------------------------------
(* AcquisitionManager._normalize_title *)

UpperChars == {"A", "B"}
LowerChars == {"a", "b"}
DigitChars == {"1"}
SpaceChars == {" "}

\* str.lower() on one character
LowerChar(c) == CASE c = "A" -> "a" [] c = "B" -> "b" [] OTHER -> c

IsAlnum(c) == c \in UpperChars \cup LowerChars \cup DigitChars
IsSpace(c) == c \in SpaceChars

RECURSIVE JoinSplit(_, _, _, _)
\* ' '.join(s.split()): runs of whitespace collapse to one space, leading and
\* trailing whitespace is dropped
JoinSplit(s, i, out, pending) ==
    IF i > Len(s) THEN out
    ELSE IF IsSpace(s[i]) THEN JoinSplit(s, i + 1, out, out # <<>>)
    ELSE JoinSplit(s, i + 1,
                   (IF pending THEN Append(out, " ") ELSE out) \o <<s[i]>>,
                   FALSE)

NormalizeTitle(title) ==
    IF title = <<>> THEN <<>>
    ELSE LET lowered == [i \in 1..Len(title) |-> LowerChar(title[i])]
             kept == SelectSeq(lowered, LAMBDA c : IsAlnum(c) \/ IsSpace(c))
         IN JoinSplit(kept, 1, <<>>, FALSE)

-----------------------------------------------------------------------------
(* AcquisitionManager._merge_paper_info *)

\* a plausible slip: citation counts are added up instead of maximised
MergePaperInfo_sumCitations(target, source) ==
    [target EXCEPT
        !.abstract = IF ~Truthy(@) /\ Truthy(source.abstract) THEN source.abstract ELSE @,
        !.year = IF ~TruthyInt(@) /\ TruthyInt(source.year) THEN source.year ELSE @,
        !.venue = IF ~Truthy(@) /\ Truthy(source.venue) THEN source.venue ELSE @,
        !.doi = IF ~Truthy(@) /\ Truthy(source.doi) THEN source.doi ELSE @,
        !.url = IF ~Truthy(@) /\ Truthy(source.url) THEN source.url ELSE @,
        !.pdf_url = IF ~Truthy(@) /\ Truthy(source.pdf_url) THEN source.pdf_url ELSE @,
        !.keywords = ListOfSet(@ \o source.keywords),
        !.categories = ListOfSet(@ \o source.categories),
        !.citation_count = @ + source.citation_count]

\* a plausible slip: the later source overwrites a populated abstract
MergePaperInfo_overwrite(target, source) ==
    [target EXCEPT
        !.abstract = IF Truthy(source.abstract) THEN source.abstract ELSE @,
        !.year = IF ~TruthyInt(@) /\ TruthyInt(source.year) THEN source.year ELSE @,
        !.venue = IF ~Truthy(@) /\ Truthy(source.venue) THEN source.venue ELSE @,
        !.doi = IF ~Truthy(@) /\ Truthy(source.doi) THEN source.doi ELSE @,
        !.url = IF ~Truthy(@) /\ Truthy(source.url) THEN source.url ELSE @,
        !.pdf_url = IF ~Truthy(@) /\ Truthy(source.pdf_url) THEN source.pdf_url ELSE @,
        !.keywords = ListOfSet(@ \o source.keywords),
        !.categories = ListOfSet(@ \o source.categories),
        !.citation_count = Max2(@, source.citation_count)]

\* a plausible slip: the citation count of the target is never updated
MergePaperInfo_keepCitations(target, source) ==
    [target EXCEPT
        !.abstract = IF ~Truthy(@) /\ Truthy(source.abstract) THEN source.abstract ELSE @,
        !.year = IF ~TruthyInt(@) /\ TruthyInt(source.year) THEN source.year ELSE @,
        !.venue = IF ~Truthy(@) /\ Truthy(source.venue) THEN source.venue ELSE @,
        !.doi = IF ~Truthy(@) /\ Truthy(source.doi) THEN source.doi ELSE @,
        !.url = IF ~Truthy(@) /\ Truthy(source.url) THEN source.url ELSE @,
        !.pdf_url = IF ~Truthy(@) /\ Truthy(source.pdf_url) THEN source.pdf_url ELSE @,
        !.keywords = ListOfSet(@ \o source.keywords),
        !.categories = ListOfSet(@ \o source.categories)]

\* the value of target after _merge_paper_info(target, source)
MergePaperInfo(target, source) ==
    [target EXCEPT
        !.abstract = IF ~Truthy(@) /\ Truthy(source.abstract) THEN source.abstract ELSE @,
        !.year = IF ~TruthyInt(@) /\ TruthyInt(source.year) THEN source.year ELSE @,
        !.venue = IF ~Truthy(@) /\ Truthy(source.venue) THEN source.venue ELSE @,
        !.doi = IF ~Truthy(@) /\ Truthy(source.doi) THEN source.doi ELSE @,
        !.url = IF ~Truthy(@) /\ Truthy(source.url) THEN source.url ELSE @,
        !.pdf_url = IF ~Truthy(@) /\ Truthy(source.pdf_url) THEN source.pdf_url ELSE @,
        !.keywords = ListOfSet(@ \o source.keywords),
        !.categories = ListOfSet(@ \o source.categories),
        !.citation_count = IF source.citation_count > @ THEN source.citation_count ELSE @]

-----------------------------------------------------------------------------
(* AcquisitionManager._deduplicate_papers *)

\* the local state of the loop: the survivors, the two lookup maps (each
\* maps a key to the position of a survivor in unique, standing for the
\* object reference the dict holds) and the ghost record of who was merged
EmptyDedup ==
    [unique |-> <<>>, papers_by_doi |-> <<>>, papers_by_title |-> <<>>,
     groups |-> <<>>]

\* a dict as a sequence of <<key, value>> pairs with distinct keys
HasKey(d, k) == \E i \in DOMAIN d : d[i][1] = k
Lookup(d, k) == d[CHOOSE i \in DOMAIN d : d[i][1] = k][2]
Store(d, k, v) ==
    IF HasKey(d, k)
    THEN [i \in DOMAIN d |-> IF d[i][1] = k THEN <<k, v>> ELSE d[i]]
    ELSE Append(d, <<k, v>>)

MergeInto(st, s, paper, k) ==
    [st EXCEPT !.unique[s] = MergePaperInfo(@, paper),
               !.groups[s] = Append(@, k)]

\* one iteration of the loop body, for the k-th paper of the input
DedupStep(st, paper, k) ==
    IF Truthy(paper.doi) /\ HasKey(st.papers_by_doi, paper.doi)
    THEN MergeInto(st, Lookup(st.papers_by_doi, paper.doi), paper, k)
    ELSE LET title_key == NormalizeTitle(paper.title) IN
         IF HasKey(st.papers_by_title, title_key)
         THEN MergeInto(st, Lookup(st.papers_by_title, title_key), paper, k)
         ELSE LET s == Len(st.unique) + 1 IN
              [unique |-> Append(st.unique, paper),
               papers_by_doi |->
                   IF Truthy(paper.doi) THEN Store(st.papers_by_doi, paper.doi, s)
                   ELSE st.papers_by_doi,
               papers_by_title |-> Store(st.papers_by_title, title_key, s),
               groups |-> Append(st.groups, <<k>>)]

RECURSIVE DedupLoop(_, _, _)
DedupLoop(papers, k, st) ==
    IF k > Len(papers) THEN st
    ELSE DedupLoop(papers, k + 1, DedupStep(st, papers[k], k))

DeduplicatePapers(papers) == DedupLoop(papers, 1, EmptyDedup)

-----------------------------------------------------------------------------
(* Inputs of the pure-function specifications *)

Dois == {"None", "10.1/x", "10.1/y"}

\* "A B" and "a-b !" normalise to the same key "a b"; "B1" to "b1"
Titles == { <<"A", " ", "B">>, <<"a", " ", "-", " ", "b", "!">>, <<"B", "1">> }

PaperIdOf == <<"p1", "p2", "p3", "p4", "p5">>
AbstractOf == <<"A1", "A2", "A3", "A4", "A5">>
VenueOf == <<"V1", "V2", "V3", "V4", "V5">>
UrlOf == <<"u1", "u2", "u3", "u4", "u5">>
PdfOf == <<"f1", "f2", "f3", "f4", "f5">>
KeywordOf == <<"k1", "k2", "k3", "k4", "k5">>
CitationOf == <<5, 9, 2, 7, 9>>

\* the i-th paper of an input list: a bare record (nothing optional is
\* populated) or a rich one (every optional field holds a value of its own)
PaperAt(i, doi, title, rich) ==
    [id |-> <<"arxiv", PaperIdOf[i]>>, title |-> title, doi |-> doi,
     abstract |-> IF rich THEN AbstractOf[i] ELSE "",
     year |-> IF rich THEN 2000 + i ELSE 0,
     venue |-> IF rich THEN VenueOf[i] ELSE "None",
     url |-> IF rich THEN UrlOf[i] ELSE "None",
     pdf_url |-> IF rich THEN PdfOf[i] ELSE "None",
     source |-> "arxiv", source_id |-> PaperIdOf[i],
     keywords |-> IF rich THEN <<KeywordOf[i], "kw">> ELSE <<>>,
     categories |-> IF rich THEN <<"cat", KeywordOf[i], "cat">> ELSE <<>>,
     citation_count |-> IF rich THEN CitationOf[i] ELSE 0]

PaperChoices == Dois \X Titles \X BOOLEAN

\* the input list built from one choice per position
PapersOf(c) == [i \in DOMAIN c |-> PaperAt(i, c[i][1], c[i][2], c[i][3])]

NoMerge == [op |-> "none"]

NoResponse == [kind |-> "unused"]

\* a client no request is made on
RateIdle ==
    /\ rate_limit = 0
    /\ now = 0
    /\ request_timestamps = <<>>
    /\ issued = <<>>

\* no clustering is run
ClusterIdle ==
    /\ findings = <<>>
    /\ similarity_matrix = <<>>
    /\ clusters = <<>>

NoComparison == [done |-> FALSE]

\* no methodology comparison is run
MethIdle ==
    /\ methodologies = <<>>
    /\ comparison = NoComparison

NoStatus == [project_id |-> "none"]

\* no pipeline call is made
PipeIdle ==
    /\ query = <<>>
    /\ project_id = "none"
    /\ changelog_file = <<>>
    /\ entries = <<>>
    /\ clock = 0
    /\ clock_set_back = FALSE
    /\ paper_count = 0
    /\ outcome = "none"
    /\ via_resume = FALSE
    /\ original_query = <<>>
    /\ status = NoStatus

NoAnalysis == [kind |-> "none"]

\* analyze is not run
AnalysisIdle ==
    /\ analyzed_papers = <<>>
    /\ raising = {}
    /\ analysis_results = NoAnalysis

NoCall == [kind |-> "none"]

\* no request is made through a source client
ClientIdle ==
    /\ retry_attempts = 0
    /\ responses = <<>>
    /\ retry_after = "absent"
    /\ operation = "none"
    /\ caller_sees = NoCall

NoNumeric == [done |-> FALSE]

\* no numerical comparison is run
NumericIdle ==
    /\ numeric_papers = <<>>
    /\ numeric_comparison = NoNumeric

NoPaper == [id |-> "none"]

\* no single survivor is enriched
EnrichIdle ==
    /\ survivor = NoPaper
    /\ by_doi_answer = "not_found"
    /\ by_id_answer = "not_found"
    /\ enriched = NoPaper

\* no query is classified
ClassifyIdle ==
    /\ top_domain = "none"
    /\ confidence = 0

\* no thread calls a client
WorkersIdle ==
    /\ worker_pc = <<>>
    /\ worker_time = <<>>
    /\ worker_list = <<>>
    /\ worker_wake = <<>>

\* no changelog is written outside a pipeline run
ChangelogIdle ==
    /\ shared_file = <<>>
    /\ manager_loaded = <<>>
    /\ manager_entries = <<>>
    /\ added = 0

\* acquire_papers is not called a second time
RepeatIdle ==
    /\ calls = 0
    /\ first_result = <<>>

\* the later groups but g are idle
LaterIdleExcept(g) ==
    /\ IF g = "meth" THEN TRUE ELSE MethIdle
    /\ IF g = "pipe" THEN TRUE ELSE PipeIdle
    /\ IF g = "analysis" THEN TRUE ELSE AnalysisIdle
    /\ IF g = "client" THEN TRUE ELSE ClientIdle
    /\ IF g = "numeric" THEN TRUE ELSE NumericIdle
    /\ IF g = "enrich" THEN TRUE ELSE EnrichIdle
    /\ IF g = "classify" THEN TRUE ELSE ClassifyIdle
    /\ IF g = "workers" THEN TRUE ELSE WorkersIdle
    /\ IF g = "changelog" THEN TRUE ELSE ChangelogIdle
    /\ IF g = "repeat" THEN TRUE ELSE RepeatIdle

LaterIdle == LaterIdleExcept("none")

\* the later groups but g are left unchanged
LaterUnchangedExcept(g) ==
    /\ IF g = "meth" THEN TRUE ELSE UNCHANGED methVars
    /\ IF g = "pipe" THEN TRUE ELSE UNCHANGED pipeVars
    /\ IF g = "analysis" THEN TRUE ELSE UNCHANGED analysisVars
    /\ IF g = "client" THEN TRUE ELSE UNCHANGED clientVars
    /\ IF g = "numeric" THEN TRUE ELSE UNCHANGED numericVars
    /\ IF g = "enrich" THEN TRUE ELSE UNCHANGED enrichVars
    /\ IF g = "classify" THEN TRUE ELSE UNCHANGED classifyVars
    /\ IF g = "workers" THEN TRUE ELSE UNCHANGED workerVars
    /\ IF g = "changelog" THEN TRUE ELSE UNCHANGED changelogVars
    /\ IF g = "repeat" THEN TRUE ELSE UNCHANGED repeatVars

\* the parts of the manager that a pure-function specification leaves alone
AcquisitionIdle ==
    /\ max_papers = 50
    /\ pubmed_client = FALSE
    /\ domain = "None"
    /\ arxiv_resp = NoResponse
    /\ ss_resp = NoResponse
    /\ pubmed_resp = NoResponse
    /\ papers_per_source = 0
    /\ paper_ids = {}
    /\ enrich_log = <<>>
    /\ result = <<>>

\* no acquisition, no request and no clustering takes place
EarlyIdle ==
    /\ hashOrder = "fwd"
    /\ all_papers = <<>>
    /\ unique_papers = <<>>
    /\ groups = <<>>
    /\ merge_log = NoMerge
    /\ AcquisitionIdle
    /\ RateIdle
    /\ ClusterIdle


-----------------------------------------------------------------------------
(* SpecDedup: _deduplicate_papers applied to every input list *)

InitDedup ==
    /\ pc = "dedup"
    /\ hashOrder \in {"fwd", "rev"}
    /\ \E n \in 0..MaxInput : \E c \in [1..n -> PaperChoices] :
           all_papers = PapersOf(c)
    /\ unique_papers = <<>>
    /\ groups = <<>>
    /\ merge_log = NoMerge
    /\ AcquisitionIdle
    /\ RateIdle
    /\ ClusterIdle
    /\ LaterIdle

\* acquire_papers, line 234: unique_papers = self._deduplicate_papers(all_papers)
Deduplicate ==
    /\ pc = "dedup"
    /\ LET st == DeduplicatePapers(all_papers) IN
       /\ unique_papers' = st.unique
       /\ groups' = st.groups
    /\ pc' = "enrich"
    /\ UNCHANGED <<nonAcqVars, all_papers, merge_log, worldVars, papers_per_source,
                   paper_ids, enrich_log, result>>

NextDedup == Deduplicate

SpecDedup == InitDedup /\ [][NextDedup]_vars

-----------------------------------------------------------------------------
(* SpecMerge: _merge_paper_info applied directly to pairs of papers *)

InitMerge ==
    /\ pc = "merge"
    /\ hashOrder \in {"fwd", "rev"}
    /\ \E c \in [1..2 -> PaperChoices] : all_papers = PapersOf(c)
    /\ unique_papers = <<>>
    /\ groups = <<>>
    /\ merge_log = NoMerge
    /\ AcquisitionIdle
    /\ RateIdle
    /\ ClusterIdle
    /\ LaterIdle

\* _merge_paper_info(P, P): target and source are the same object
MergeSelf ==
    /\ pc = "merge"
    /\ \E i \in DOMAIN all_papers :
         merge_log' = [op |-> "self", target |-> all_papers[i],
                       source |-> all_papers[i],
                       result |-> MergePaperInfo(all_papers[i], all_papers[i])]
    /\ UNCHANGED <<nonAcqVars, pc, dedupVars, worldVars, papers_per_source, paper_ids,
                   enrich_log, result>>

\* _merge_paper_info(T, S) called a second time with the same source S
MergeAgain ==
    /\ pc = "merge"
    /\ \E i, j \in DOMAIN all_papers :
         LET once == MergePaperInfo(all_papers[i], all_papers[j]) IN
         merge_log' = [op |-> "again", target |-> once, source |-> all_papers[j],
                       result |-> MergePaperInfo(once, all_papers[j])]
    /\ UNCHANGED <<nonAcqVars, pc, dedupVars, worldVars, papers_per_source, paper_ids,
                   enrich_log, result>>

NextMerge == MergeSelf \/ MergeAgain

SpecMerge == InitMerge /\ [][NextMerge]_vars

-----------------------------------------------------------------------------
(* Source records and the Paper.from_* adapters *)

ArxivIds == <<"2101.00001", "2101.00002", "2101.00003">>
S2Ids == <<"s2-1", "s2-2", "s2-3">>
Pmids == <<"31000001", "31000002", "31000003">>

\* ArxivPaper, the k-th result of a search. Variant "x" carries the DOI and no
\* summary; variant "n" has a summary and no DOI.
ArxivRecord(k, v) ==
    IF v = "x"
    THEN [id |-> ArxivIds[k], title |-> <<"A", " ", "B">>, abstract |-> "",
          published |-> 2021, doi |-> "10.1/x", categories |-> <<"cs.LG">>,
          pdf_url |-> "arxiv-pdf"]
    ELSE [id |-> ArxivIds[k], title |-> <<"B", "1">>, abstract |-> "A-arxiv",
          published |-> 0, doi |-> "None", categories |-> <<>>,
          pdf_url |-> "None"]

ArxivVariants == {"x", "n"}

\* SemanticScholarPaper, the k-th result of a search. external_ids.null
\* stands for "externalIds": null in the response, on which the doi property
\* (external_ids.get) raises AttributeError.
SSRecord(k, v) ==
    CASE v = "x" ->
           [paper_id |-> S2Ids[k], external_ids |-> [null |-> FALSE, DOI |-> "10.1/x"],
            title |-> <<"a", " ", "-", " ", "b", "!">>, abstract |-> "A2",
            venue |-> "NeurIPS", year |-> 2020, citations_count |-> 9,
            url |-> "None", s2_url |-> "s2-url", pdf_url |-> "None",
            fields_of_study |-> <<"Computer Science">>]
      [] v = "n" ->
           [paper_id |-> S2Ids[k], external_ids |-> [null |-> FALSE, DOI |-> "None"],
            title |-> <<"B", "1">>, abstract |-> "",
            venue |-> "", year |-> 0, citations_count |-> 5,
            url |-> "None", s2_url |-> "None", pdf_url |-> "None",
            fields_of_study |-> <<>>]
      [] OTHER ->
           [paper_id |-> S2Ids[k], external_ids |-> [null |-> TRUE, DOI |-> "None"],
            title |-> <<"B">>, abstract |-> "",
            venue |-> "", year |-> 0, citations_count |-> 0,
            url |-> "None", s2_url |-> "None", pdf_url |-> "None",
            fields_of_study |-> <<>>]

SSVariants == {"x", "n", "null_ids"}

\* PubMedPaper, the k-th result of a search
PubmedRecord(k, v) ==
    IF v = "x"
    THEN [pmid |-> Pmids[k], title |-> <<"A", "1">>, abstract |-> "A-pubmed",
          publication_date |-> 2019, journal |-> "J", doi |-> "10.1/x",
          keywords |-> <<"mesh">>]
    ELSE [pmid |-> Pmids[k], title |-> <<"A", "1">>, abstract |-> "",
          publication_date |-> 0, journal |-> "J", doi |-> "10.1/y",
          keywords |-> <<"mesh">>]

PubmedVariants == {"x", "y"}

\* Paper.from_arxiv: no venue, no keywords, citation_count left at its default
FromArxiv(r) ==
    [id |-> <<"arxiv", r.id>>, title |-> r.title, abstract |-> r.abstract,
     year |-> r.published, venue |-> "None", doi |-> r.doi,
     url |-> "https://arxiv.org/abs/<id>", pdf_url |-> r.pdf_url,
     source |-> "arxiv", source_id |-> r.id,
     keywords |-> <<>>, categories |-> r.categories, citation_count |-> 0]

\* Paper.from_semantic_scholar raises (AttributeError) on this record
FromSemanticScholarRaises(r) == r.external_ids.null

\* Paper.from_semantic_scholar
FromSemanticScholar(r) ==
    [id |-> <<"s2", r.paper_id>>, title |-> r.title, abstract |-> r.abstract,
     year |-> r.year, venue |-> r.venue, doi |-> r.external_ids.DOI,
     url |-> IF Truthy(r.url) THEN r.url ELSE r.s2_url, pdf_url |-> r.pdf_url,
     source |-> "semantic_scholar", source_id |-> r.paper_id,
     keywords |-> <<>>, categories |-> r.fields_of_study,
     citation_count |-> r.citations_count]

\* Paper.from_pubmed: no categories, citation_count left at its default
FromPubmed(r) ==
    [id |-> <<"pubmed", r.pmid>>, title |-> r.title, abstract |-> r.abstract,
     year |-> r.publication_date, venue |-> r.journal, doi |-> r.doi,
     url |-> "https://pubmed.ncbi.nlm.nih.gov/<pmid>/", pdf_url |-> "None",
     source |-> "pubmed", source_id |-> r.pmid,
     keywords |-> r.keywords, categories |-> <<>>, citation_count |-> 0]

-----------------------------------------------------------------------------
(* AcquisitionManager._get_*_papers *)

\* the adapter a _get_*_papers method applies to the records of its source
Adapt(src, r) ==
    IF src = "arxiv" THEN FromArxiv(r)
    ELSE IF src = "semantic_scholar" THEN FromSemanticScholar(r)
    ELSE FromPubmed(r)

\* whether that adapter raises on record r
AdaptRaises(src, r) ==
    IF src = "semantic_scholar" THEN FromSemanticScholarRaises(r) ELSE FALSE

RECURSIVE ConvertLoop(_, _, _, _, _)
\* the conversion loop of a _get_*_papers method over the search results rs:
\* adapt, skip a paper whose id is already in paper_ids, else record the id
\* and keep the paper. The outcome says whether an adapter raised.
ConvertLoop(rs, k, src, ids, papers) ==
    IF k > Len(rs) THEN [raised |-> FALSE, ids |-> ids, papers |-> papers]
    ELSE IF AdaptRaises(src, rs[k]) THEN [raised |-> TRUE, ids |-> ids, papers |-> papers]
    ELSE LET paper == Adapt(src, rs[k]) IN
         IF paper.id \in ids
         THEN ConvertLoop(rs, k + 1, src, ids, papers)
         ELSE ConvertLoop(rs, k + 1, src, ids \cup {paper.id},
                          Append(papers, paper))

\* the body of one _get_*_papers call: an APIError of the search is caught
\* and gives [], any other exception propagates
GetPapers(resp, src, ids) ==
    IF resp.kind = "api_error"
    THEN [raised |-> FALSE, ids |-> ids, papers |-> <<>>]
    ELSE ConvertLoop(resp.results, 1, src, ids, <<>>)

-----------------------------------------------------------------------------
(* AcquisitionManager._enrich_paper *)

\* what SemanticScholarClient.get_paper gives for one lookup: None, an
\* APIError, a record, or a record the adapter cannot convert
FallbackResponses == {"not_found", "api_error", "paper", "null_ids"}

FallbackRecord ==
    [paper_id |-> "s2-fallback", external_ids |-> [null |-> FALSE, DOI |-> "10.1/f"],
     title |-> <<"b">>, abstract |-> "A-fallback",
     venue |-> "V-fallback", year |-> 2018, citations_count |-> 7,
     url |-> "fallback-url", s2_url |-> "None", pdf_url |-> "fallback-pdf",
     fields_of_study |-> <<"Computer Science", "Biology">>]

\* _enrich_paper(paper) when the lookup by DOI answers by_doi and the lookup
\* by arXiv id answers by_id: the paper it returns, the number of lookups it
\* made and whether a fallback record was merged
EnrichPaper(paper, by_doi, by_id) ==
    IF paper.citation_count > 0 /\ Truthy(paper.abstract)
    THEN [paper |-> paper, lookups |-> 0, merged |-> FALSE]
    ELSE LET doi_lookup == Truthy(paper.doi)
             first == IF doi_lookup /\ by_doi \in {"paper", "null_ids"}
                      THEN by_doi ELSE "not_found"
             id_lookup == first = "not_found" /\ paper.source = "arxiv"
             ss_paper == IF id_lookup /\ by_id \in {"paper", "null_ids"}
                         THEN by_id ELSE first
             lookups == (IF doi_lookup THEN 1 ELSE 0) + (IF id_lookup THEN 1 ELSE 0)
         IN IF ss_paper = "paper"
            THEN [paper |-> MergePaperInfo(paper, FromSemanticScholar(FallbackRecord)),
                  lookups |-> lookups, merged |-> TRUE]
            ELSE [paper |-> paper, lookups |-> lookups, merged |-> FALSE]

-----------------------------------------------------------------------------
(* acquire_papers: ranking *)

CitationKey(p) == IF TruthyInt(p.citation_count) THEN p.citation_count ELSE 0

\* a plausible slip: descending order obtained by reversing an ascending
\* sort, which reverses ties
InsertDesc_tiesReversed(out, p) ==
    LET before == SelectSeq(out, LAMBDA q : CitationKey(q) > CitationKey(p))
        after == SelectSeq(out, LAMBDA q : CitationKey(q) <= CitationKey(p))
    IN before \o <<p>> \o after

\* insertion of p behind every element whose key is at least p's key
InsertDesc(out, p) ==
    LET before == SelectSeq(out, LAMBDA q : CitationKey(q) >= CitationKey(p))
        after == SelectSeq(out, LAMBDA q : CitationKey(q) < CitationKey(p))
    IN before \o <<p>> \o after

RECURSIVE SortedDesc(_, _, _)
\* sorted(papers, key=citation_count or 0, reverse=True): stable
SortedDesc(papers, k, out) ==
    IF k > Len(papers) THEN out
    ELSE SortedDesc(papers, k + 1, InsertDesc(out, papers[k]))

\* sorted_papers[:max_papers]
Truncate(papers, n) ==
    IF n >= Len(papers) THEN papers ELSE SubSeq(papers, 1, n)

-----------------------------------------------------------------------------
(* SpecAcq: acquire_papers on a fresh AcquisitionManager *)

\* bound of the model: longest result list a source search returns
MaxResults == 1

\* max_workers of the enrichment pool
PoolWidth == 5

MaxPapersChoices == {1, 50}

\* domain codes QueryProcessor._identify_domain can return (None included)
Domains == {"None", "cs", "med"}

\* the domains for which acquire_papers queries PubMed
PubmedDomains == {"med", "biology", "chemistry"}

QueriesPubmed == pubmed_client /\ domain \in PubmedDomains

\* the k-th record of a source's result list, in variant v
RecordOf(src, k, v) ==
    IF src = "arxiv" THEN ArxivRecord(k, v)
    ELSE IF src = "semantic_scholar" THEN SSRecord(k, v)
    ELSE PubmedRecord(k, v)

VariantsOf(src) ==
    IF src = "arxiv" THEN ArxivVariants
    ELSE IF src = "semantic_scholar" THEN SSVariants
    ELSE PubmedVariants

\* what a client's search does: it raises APIError (every exception inside
\* search is wrapped into one) or returns up to MaxResults records
SearchOutcomes(src) ==
    {[kind |-> "api_error"]} \cup
    UNION { { [kind |-> "ok", results |-> [k \in 1..n |-> RecordOf(src, k, c[k])]] :
                c \in [1..n -> VariantsOf(src)] } : n \in 0..MaxResults }

InitAcq ==
    /\ pc = "arxiv"
    /\ hashOrder \in {"fwd", "rev"}
    /\ max_papers \in MaxPapersChoices
    /\ pubmed_client \in BOOLEAN
    /\ domain \in Domains
    /\ arxiv_resp \in SearchOutcomes("arxiv")
    /\ ss_resp \in SearchOutcomes("semantic_scholar")
    /\ IF QueriesPubmed
       THEN pubmed_resp \in SearchOutcomes("pubmed")
       ELSE pubmed_resp = NoResponse
    /\ papers_per_source = 0
    /\ paper_ids = {}
    /\ all_papers = <<>>
    /\ unique_papers = <<>>
    /\ groups = <<>>
    /\ merge_log = NoMerge
    /\ enrich_log = <<>>
    /\ result = <<>>
    /\ RateIdle
    /\ ClusterIdle
    /\ LaterIdle

\* acquire_papers, lines 212-220
GetArxivPapers ==
    /\ pc = "arxiv"
    /\ papers_per_source' = Max2(5, max_papers \div 3)
    /\ LET got == GetPapers(arxiv_resp, "arxiv", paper_ids) IN
       /\ all_papers' = all_papers \o got.papers
       /\ paper_ids' = got.ids
    /\ pc' = "semantic_scholar"
    /\ UNCHANGED <<nonAcqVars, unique_papers, groups, merge_log, worldVars, enrich_log, result>>

\* acquire_papers, lines 222-225; an exception of the adapter is not an
\* APIError and leaves acquire_papers
GetSemanticScholarPapers ==
    /\ pc = "semantic_scholar"
    /\ LET got == GetPapers(ss_resp, "semantic_scholar", paper_ids) IN
       /\ paper_ids' = got.ids
       /\ IF got.raised
          THEN pc' = "raised" /\ UNCHANGED all_papers
          ELSE pc' = "pubmed" /\ all_papers' = all_papers \o got.papers
    /\ UNCHANGED <<nonAcqVars, unique_papers, groups, merge_log, worldVars,
                   papers_per_source, enrich_log, result>>

\* acquire_papers, lines 227-231, the branch taken
GetPubmedPapers ==
    /\ pc = "pubmed"
    /\ QueriesPubmed
    /\ LET got == GetPapers(pubmed_resp, "pubmed", paper_ids) IN
       /\ all_papers' = all_papers \o got.papers
       /\ paper_ids' = got.ids
    /\ pc' = "dedup"
    /\ UNCHANGED <<nonAcqVars, unique_papers, groups, merge_log, worldVars,
                   papers_per_source, enrich_log, result>>

\* acquire_papers, line 228, the branch not taken
SkipPubmed ==
    /\ pc = "pubmed"
    /\ ~QueriesPubmed
    /\ pc' = "dedup"
    /\ UNCHANGED <<nonAcqVars, dedupVars, merge_log, worldVars, papers_per_source,
                   paper_ids, enrich_log, result>>

\* list.index(paper): the first position holding an equal Paper
IndexOf(papers, paper) ==
    CHOOSE i \in DOMAIN papers :
        papers[i] = paper /\ \A j \in 1..(i - 1) : papers[j] # paper

\* _enrich_papers, line 458: papers[papers.index(paper)] = enriched_paper
PlaceEnriched(papers, paper) == [papers EXCEPT ![IndexOf(papers, paper)] = paper]

EnrichDone == {enrich_log[n].task : n \in DOMAIN enrich_log}

\* one enrichment task of _enrich_papers: the worker runs _enrich_paper on
\* its own Paper object (mutating it in place) and the main thread, taking
\* the futures as they complete, stores the returned paper. A task runs only
\* when the pool has a free worker.
EnrichTask(i) ==
    /\ pc = "enrich"
    /\ i \in DOMAIN unique_papers
    /\ i \notin EnrichDone
    /\ Cardinality({j \in 1..(i - 1) : j \notin EnrichDone}) < PoolWidth
    /\ \E by_doi, by_id \in FallbackResponses :
         LET e == EnrichPaper(unique_papers[i], by_doi, by_id)
             mutated == [unique_papers EXCEPT ![i] = e.paper]
         IN /\ unique_papers' = PlaceEnriched(mutated, e.paper)
            /\ enrich_log' = Append(enrich_log,
                   [task |-> i, lookups |-> e.lookups, merged |-> e.merged])
    /\ UNCHANGED <<nonAcqVars, pc, all_papers, groups, merge_log, worldVars,
                   papers_per_source, paper_ids, result>>

\* acquire_papers, lines 240-251, once every enrichment task has completed
RankAndReturn ==
    /\ pc = "enrich"
    /\ EnrichDone = DOMAIN unique_papers
    /\ result' = Truncate(SortedDesc(unique_papers, 1, <<>>), max_papers)
    /\ pc' = "returned"
    /\ UNCHANGED <<nonAcqVars, dedupVars, merge_log, worldVars, papers_per_source,
                   paper_ids, enrich_log>>

NextAcq ==
    \/ GetArxivPapers
    \/ GetSemanticScholarPapers
    \/ GetPubmedPapers
    \/ SkipPubmed
    \/ Deduplicate
    \/ \E i \in 1..(3 * MaxResults) : EnrichTask(i)
    \/ RankAndReturn

SpecAcq == InitAcq /\ [][NextAcq]_vars

-----------------------------------------------------------------------------
(* Claims about deduplication and merge *)

StrFields == {"abstract", "venue", "doi", "url", "pdf_url"}

Deduplicated == pc = "enrich"

\* C1 (as claimed): after _deduplicate_papers no two survivors of the returned
\* list carry the same non-empty DOI.
C1_OneSurvivorPerDoi ==
    Deduplicated =>
        \A i, j \in DOMAIN unique_papers :
            (i # j /\ Truthy(unique_papers[i].doi)) =>
                unique_papers[i].doi # unique_papers[j].doi

\* the first member of grp (indices into all_papers, in input order) whose
\* field is populated decides the survivor's value
FirstSeenStr(sv, grp, f) ==
    \A j \in DOMAIN grp :
        (/\ Truthy(all_papers[grp[j]][f])
         /\ \A h \in 1..(j - 1) : ~Truthy(all_papers[grp[h]][f]))
        => sv[f] = all_papers[grp[j]][f]

FirstSeenYear(sv, grp) ==
    \A j \in DOMAIN grp :
        (/\ TruthyInt(all_papers[grp[j]].year)
         /\ \A h \in 1..(j - 1) : ~TruthyInt(all_papers[grp[h]].year))
        => sv.year = all_papers[grp[j]].year

\* C2: after deduplication every scalar field of a survivor is the value of
\* the first paper merged into it (input order) that has the field populated,
\* and its keywords / categories are, as sets, the union over those papers.
C2_FirstSeenWins ==
    Deduplicated =>
        \A s \in DOMAIN unique_papers :
            LET sv == unique_papers[s]
                grp == groups[s]
            IN /\ \A f \in StrFields : FirstSeenStr(sv, grp, f)
               /\ FirstSeenYear(sv, grp)
               /\ Range(sv.keywords) =
                    UNION {Range(all_papers[k].keywords) : k \in Range(grp)}
               /\ Range(sv.categories) =
                    UNION {Range(all_papers[k].categories) : k \in Range(grp)}

\* a survivor made of three papers: the first has no abstract, the second and
\* the third have different ones, and the second's is kept
C2_Witness ==
    /\ Deduplicated
    /\ \E s \in DOMAIN unique_papers :
         /\ Len(groups[s]) = 3
         /\ ~Truthy(all_papers[groups[s][1]].abstract)
         /\ Truthy(all_papers[groups[s][2]].abstract)
         /\ Truthy(all_papers[groups[s][3]].abstract)
         /\ all_papers[groups[s][2]].abstract # all_papers[groups[s][3]].abstract
         /\ unique_papers[s].abstract = all_papers[groups[s][2]].abstract
         /\ Cardinality(Range(unique_papers[s].keywords)) = 3

\* equality of two Paper values, keywords and categories compared as sets
SamePaper(p, q) ==
    /\ p.id = q.id /\ p.title = q.title
    /\ \A f \in StrFields : p[f] = q[f]
    /\ p.year = q.year
    /\ p.citation_count = q.citation_count
    /\ p.source = q.source /\ p.source_id = q.source_id
    /\ Range(p.keywords) = Range(q.keywords)
    /\ Range(p.categories) = Range(q.categories)

\* C4: merging P into itself leaves P unchanged (scalar fields, citationCount,
\* keyword and category sets), and merging the same source into a survivor a
\* second time changes nothing.
C4_MergeIdempotent ==
    merge_log.op \in {"self", "again"} =>
        SamePaper(merge_log.result, merge_log.target)

\* a populated paper merged into itself: the category list is rebuilt (its
\* duplicate entry goes) while the category set stays
C4_Witness ==
    /\ merge_log.op = "self"
    /\ Truthy(merge_log.target.abstract)
    /\ merge_log.target.citation_count > 0
    /\ merge_log.result.categories # merge_log.target.categories

-----------------------------------------------------------------------------
(* Claims about acquire_papers *)

Returned == pc = "returned"

MaxOf(S) == CHOOSE m \in S : \A x \in S : x <= m

Min2(a, b) == IF a < b THEN a ELSE b

\* the survivor (position in unique_papers) a returned paper is; ids are
\* unique among the survivors because every source filters on paper_ids
SurvivorOf(p) == CHOOSE s \in DOMAIN unique_papers : unique_papers[s].id = p.id

\* the enrichment of survivor s merged the fallback record into it
EnrichMerged(s) ==
    \E n \in DOMAIN enrich_log : enrich_log[n].task = s /\ enrich_log[n].merged

\* every citation count merged into survivor s: those of the papers of its
\* group and, when enrichment merged it, that of the fallback record
MergedCitations(s) ==
    {all_papers[k].citation_count : k \in Range(groups[s])} \cup
    (IF EnrichMerged(s) THEN {FallbackRecord.citations_count} ELSE {})

ArxivFailed == arxiv_resp.kind = "api_error"

SSFailed ==
    \/ ss_resp.kind = "api_error"
    \/ /\ ss_resp.kind = "ok"
       /\ \E k \in DOMAIN ss_resp.results : FromSemanticScholarRaises(ss_resp.results[k])

PubmedFailed == QueriesPubmed /\ pubmed_resp.kind = "api_error"

FromSource(src) == {k \in DOMAIN all_papers : all_papers[k].source = src}

\* C7 (as claimed): when a source's search or record adaptation fails, that
\* source contributes an empty list, acquire_papers does not raise, and the
\* papers of the other sources are still deduplicated, ranked and returned.
C7_SourceFailureIsolated ==
    /\ pc # "raised"
    /\ Returned =>
         /\ ArxivFailed => FromSource("arxiv") = {}
         /\ SSFailed => FromSource("semantic_scholar") = {}
         /\ PubmedFailed => FromSource("pubmed") = {}
         /\ \A k \in DOMAIN all_papers :
                \E s \in DOMAIN groups : k \in Range(groups[s])
         /\ Len(result) = Min2(max_papers, Len(unique_papers))

\* C8 (as claimed): acquire_papers signals an error to its caller if and only
\* if every enabled source produced zero papers before dedup. Stated here is
\* its "if" half: a call in which every source produced zero papers does not
\* return normally.
C8_FailsIfAllSourcesEmpty ==
    Returned => all_papers # <<>>

SourceRank(src) ==
    CASE src = "arxiv" -> 1 [] src = "semantic_scholar" -> 2 [] OTHER -> 3

\* the survivors as _deduplicate_papers left them, before enrichment
SurvivorsBeforeEnrich == DeduplicatePapers(all_papers).unique

\* C9: the returned list is ordered by citationCount non-increasing, papers
\* with equal citationCount keep their dedup-survivor order (source-priority
\* concatenation order), it is the first max_papers of that order, and it
\* does not depend on the order in which the enrichment tasks complete.
C9_RankedStableOrder ==
    Returned =>
        /\ \A i, j \in DOMAIN result :
             i < j =>
                /\ CitationKey(result[i]) >= CitationKey(result[j])
                /\ CitationKey(result[i]) = CitationKey(result[j])
                     => SurvivorOf(result[i]) < SurvivorOf(result[j])
        /\ Len(result) = Min2(max_papers, Len(unique_papers))
        /\ \A s \in DOMAIN unique_papers :
             (\A i \in DOMAIN result : SurvivorOf(result[i]) # s) =>
                \A i \in DOMAIN result :
                    \/ CitationKey(result[i]) > CitationKey(unique_papers[s])
                    \/ /\ CitationKey(result[i]) = CitationKey(unique_papers[s])
                       /\ SurvivorOf(result[i]) < s
        /\ \A s, t \in DOMAIN groups : s < t => groups[s][1] < groups[t][1]
        /\ \A a, b \in DOMAIN all_papers :
             a < b => SourceRank(all_papers[a].source) <= SourceRank(all_papers[b].source)
        /\ \A s \in DOMAIN unique_papers :
             unique_papers[s] =
                IF EnrichMerged(s)
                THEN MergePaperInfo(SurvivorsBeforeEnrich[s],
                                    FromSemanticScholar(FallbackRecord))
                ELSE SurvivorsBeforeEnrich[s]

\* three survivors, the last enrichment task completes first, the ranking
\* moves the Semantic Scholar paper to the front and the arXiv and PubMed
\* papers tie behind it in concatenation order
C9_Witness ==
    /\ Returned
    /\ Len(result) = 3
    /\ enrich_log[1].task = 3
    /\ result[1].source = "semantic_scholar"
    /\ result[2].source = "arxiv"
    /\ result[3].source = "pubmed"
    /\ CitationKey(result[1]) > CitationKey(result[2])
    /\ CitationKey(result[2]) = CitationKey(result[3])

-----------------------------------------------------------------------------
(* APIClient._check_rate_limit and the request that follows it *)

\* length of the sliding window, in seconds
Window == 60

\* bounds of the model: requests made on the client, largest rate limit
MaxCalls == 5
MaxRateLimit == 2

\* seconds that pass between the end of one request and the next call
Delays == {0, 1, 30, 59, 60}

MinOf(S) == CHOOSE m \in S : \A x \in S : m <= x

\* timestamps younger than the window at current_time
Pruned(timestamps, current_time) ==
    SelectSeq(timestamps, LAMBDA ts : current_time - ts < Window)

\* a plausible slip: the limit is compared with > instead of >=
LimitReached_offByOne(timestamps) == Len(timestamps) > rate_limit

\* line 79: len(self.request_timestamps) >= self.rate_limit
LimitReached(timestamps) == Len(timestamps) >= rate_limit

\* lines 80-85: the time slept, 0 when the limit is not reached
WaitTime(timestamps, current_time) ==
    IF LimitReached(timestamps)
    THEN LET wait_time == Window - (current_time - MinOf(Range(timestamps)))
         IN IF wait_time > 0 THEN wait_time ELSE 0
    ELSE 0

InitRate ==
    /\ pc = "client"
    /\ hashOrder = "fwd"
    /\ all_papers = <<>>
    /\ unique_papers = <<>>
    /\ groups = <<>>
    /\ merge_log = NoMerge
    /\ AcquisitionIdle
    /\ ClusterIdle
    /\ LaterIdle
    /\ rate_limit \in 1..MaxRateLimit
    /\ now = 0
    /\ request_timestamps = <<>>
    /\ issued = <<>>

\* APIClient.get / post, made d seconds after the previous request: the call
\* runs _check_rate_limit (prune, sleep if the limit is reached, record
\* current_time) and then sends the request
Request ==
    /\ Len(issued) < MaxCalls
    /\ \E d \in Delays :
         LET current_time == now + d
             kept == Pruned(request_timestamps, current_time)
             sent == current_time + WaitTime(kept, current_time)
         IN /\ request_timestamps' = Append(kept, current_time)
            /\ now' = sent
            /\ issued' = Append(issued, [ts |-> current_time, at |-> sent])
    /\ UNCHANGED <<rate_limit, nonRateVars>>

NextRate == Request

SpecRate == InitRate /\ [][NextRate]_vars

-----------------------------------------------------------------------------
(* Claims about the rate limiter *)

SentBefore(n) == {m \in 1..(n - 1) : issued[n].at - issued[m].at < Window}

\* C6 (as claimed): a request is issued only when fewer than rateLimit
\* requests of the client were actually issued during the preceding 60
\* seconds, so no sliding 60-second interval holds more than rateLimit issued
\* requests.
C6_QuotaHolds ==
    \A n \in DOMAIN issued : Cardinality(SentBefore(n)) < rate_limit

-----------------------------------------------------------------------------
(* ComparativeAnalysis._cluster_findings *)

\* threshold = 0.7, in tenths
Threshold == 7

\* bound of the model: number of findings
MaxFindings == 3

\* similarity scores, in tenths: 0.7 (not above the threshold) and 1.0
SimValues == {7, 10}

FindingTexts == <<"finding 1", "finding 2", "finding 3", "finding 4", "finding 5">>

\* a plausible slip: findings already assigned are not excluded
SimilarIndices_ignoreUsed(i, used) ==
    SelectSeq([j \in 1..Len(findings) |-> j],
              LAMBDA j : similarity_matrix[i][j] > Threshold)

\* a plausible slip: the threshold is compared with >= instead of >
SimilarIndices_atLeast(i, used) ==
    SelectSeq([j \in 1..Len(findings) |-> j],
              LAMBDA j : similarity_matrix[i][j] >= Threshold /\ j \notin used)

\* lines 160-161: the findings similar to seed i that are not yet assigned,
\* in index order
SimilarIndices(i, used) ==
    SelectSeq([j \in 1..Len(findings) |-> j],
              LAMBDA j : similarity_matrix[i][j] > Threshold /\ j \notin used)

\* a plausible slip: the seed is left out of the size
MakeCluster_sizeWithoutSeed(i, similar_indices) ==
    [findings |-> <<findings[i]>> \o [n \in 1..Len(similar_indices) |->
                                        findings[similar_indices[n]]],
     papers |-> {findings[i].paper_idx} \cup
                {findings[similar_indices[n]].paper_idx : n \in DOMAIN similar_indices},
     representative |-> findings[i].text,
     size |-> Len(similar_indices),
     members |-> <<i>> \o similar_indices]

\* lines 164-169: the cluster of seed i; members is the ghost list of the
\* indices behind the findings list
MakeCluster(i, similar_indices) ==
    [findings |-> <<findings[i]>> \o [n \in 1..Len(similar_indices) |->
                                        findings[similar_indices[n]]],
     papers |-> {findings[i].paper_idx} \cup
                {findings[similar_indices[n]].paper_idx : n \in DOMAIN similar_indices},
     representative |-> findings[i].text,
     size |-> 1 + Len(similar_indices),
     members |-> <<i>> \o similar_indices]

RECURSIVE ClusterLoop(_, _, _)
\* lines 155-175: the loop over the seeds
ClusterLoop(i, used, out) ==
    IF i > Len(findings) THEN out
    ELSE IF i \in used THEN ClusterLoop(i + 1, used, out)
    ELSE LET similar_indices == SimilarIndices(i, used) IN
         ClusterLoop(i + 1, used \cup {i} \cup Range(similar_indices),
                     Append(out, MakeCluster(i, similar_indices)))

\* insertion of c behind every cluster at least as large
InsertBySize(out, c) ==
    SelectSeq(out, LAMBDA d : d.size >= c.size) \o <<c>> \o
    SelectSeq(out, LAMBDA d : d.size < c.size)

RECURSIVE SortedBySize(_, _, _)
\* line 178: sorted(clusters, key=size, reverse=True): stable
SortedBySize(cs, k, out) ==
    IF k > Len(cs) THEN out
    ELSE SortedBySize(cs, k + 1, InsertBySize(out, cs[k]))

ClusterFindings == SortedBySize(ClusterLoop(1, {}, <<>>), 1, <<>>)

\* compare_findings flattens the findings paper by paper, so paper_idx never
\* decreases along the list: the first `split` findings are of paper 0
FindingAt(i, split) ==
    [text |-> FindingTexts[i], paper_idx |-> IF i <= split THEN 0 ELSE 1]

InitCluster ==
    /\ pc = "cluster"
    /\ hashOrder = "fwd"
    /\ all_papers = <<>>
    /\ unique_papers = <<>>
    /\ groups = <<>>
    /\ merge_log = NoMerge
    /\ AcquisitionIdle
    /\ RateIdle
    /\ LaterIdle
    /\ \E n \in 0..MaxFindings :
         /\ \E split \in 0..n : findings = [i \in 1..n |-> FindingAt(i, split)]
         /\ similarity_matrix \in [1..n -> [1..n -> SimValues]]
    /\ clusters = <<>>

\* compare_findings, line 122: clusters = self._cluster_findings(...)
Cluster ==
    /\ pc = "cluster"
    /\ clusters' = ClusterFindings
    /\ pc' = "clustered"
    /\ UNCHANGED <<all_papers, unique_papers, groups, merge_log, worldVars,
                   papers_per_source, paper_ids, enrich_log, result,
                   rateVars, laterVars, findings, similarity_matrix>>

NextCluster == Cluster

SpecCluster == InitCluster /\ [][NextCluster]_vars

-----------------------------------------------------------------------------
(* Claims about clustering *)

Clustered == pc = "clustered"

\* C10: the clusters partition the findings: the union of the finding
\* indices of all clusters is the set of input indices and no index belongs
\* to two different clusters.
C10_ClustersPartition ==
    Clustered =>
        /\ UNION {Range(clusters[c].members) : c \in DOMAIN clusters}
             = DOMAIN findings
        /\ \A c, d \in DOMAIN clusters :
             c # d => Range(clusters[c].members) \cap Range(clusters[d].members) = {}

\* three findings, the second similar to the first and to the third, which
\* are not similar to each other: the first seed takes the second
C10_Witness ==
    /\ Clustered
    /\ Len(findings) = 3
    /\ similarity_matrix[1][2] > Threshold
    /\ similarity_matrix[3][2] > Threshold
    /\ similarity_matrix[1][3] <= Threshold
    /\ similarity_matrix[3][1] <= Threshold
    /\ Len(clusters) = 2
    /\ 2 \in Range(clusters[1].members)
    /\ 1 \in Range(clusters[1].members)
    /\ Range(clusters[2].members) = {3}

\* C11: every cluster returned by the clustering has size equal to the length
\* of its list of member findings, and its set of paper indices is the set of
\* the paper indices of its member findings.
C11_ClusterSizeAndPapers ==
    Clustered =>
        \A c \in DOMAIN clusters :
            /\ clusters[c].size = Len(clusters[c].findings)
            /\ clusters[c].papers =
                  {clusters[c].findings[n].paper_idx : n \in DOMAIN clusters[c].findings}

\* a cluster of several findings that come from two papers
C11_Witness ==
    /\ Clustered
    /\ \E c \in DOMAIN clusters :
          /\ clusters[c].size >= 2
          /\ clusters[c].papers = {0, 1}
          /\ Cardinality(Range(clusters[c].members)) >= 2

-----------------------------------------------------------------------------
(* ComparativeAnalysis.compare_methodologies *)

\* "if score > 0.3", in tenths
PresenceThreshold == 3

\* bounds of the model: papers of a free input, papers of a two-group input
MaxMethodologies == 3
MaxGroupPapers == 10

\* the score dicts a paper can have, as lists of <<category, score>> in the
\* order of the dict; scores in tenths
MethodologyChoices ==
    { <<>>,
      << <<"experimental", 8>> >>,
      << <<"qualitative", 5>> >>,
      << <<"experimental", 3>>, <<"qualitative", 5>> >>,
      << <<"qualitative", 8>>, <<"experimental", 5>> >>,
      << <<"survey", 4>>, <<"experimental", 0>> >> }

Categories == {"experimental", "qualitative", "survey"}

\* a plausible slip: the threshold itself counts as present
Present_atLeast(score) == score >= PresenceThreshold

\* line 55: if score > 0.3
Present(score) == score > PresenceThreshold

RECURSIVE CountCategories(_, _, _, _)
\* lines 52-58: the two nested loops, paper p and item k of its dict
CountCategories(ms, p, k, category_counts) ==
    IF p > Len(ms) THEN category_counts
    ELSE IF k > Len(ms[p]) THEN CountCategories(ms, p + 1, 1, category_counts)
    ELSE LET category == ms[p][k][1]
             score == ms[p][k][2]
         IN IF Present(score)
            THEN CountCategories(ms, p, k + 1,
                    Store(category_counts, category,
                          IF HasKey(category_counts, category)
                          THEN Lookup(category_counts, category) + 1 ELSE 1))
            ELSE CountCategories(ms, p, k + 1, category_counts)

\* line 65: max(category_counts.items(), key=count), the first item of
\* maximal count, or (None, 0)
MostCommon(category_counts) ==
    IF category_counts = <<>> THEN <<"None", 0>>
    ELSE category_counts[
           CHOOSE i \in DOMAIN category_counts :
              /\ \A j \in DOMAIN category_counts :
                    category_counts[j][2] <= category_counts[i][2]
              /\ \A j \in 1..(i - 1) :
                    category_counts[j][2] < category_counts[i][2]]

\* a quotient a / b of the code, kept as the fraction; 0 when the list is empty
Ratio(a, b) == IF b = 0 THEN [num |-> 0, den |-> 1] ELSE [num |-> a, den |-> b]

\* lines 51-79
CompareMethodologies(ms) ==
    LET category_counts == CountCategories(ms, 1, 1, <<>>)
        unique_categories == Len(category_counts)
        most_common == MostCommon(category_counts)
    IN [done |-> TRUE,
        category_counts |-> category_counts,
        most_common_methodology |-> most_common[1],
        methodology_diversity |-> Ratio(unique_categories, Len(ms)),
        consensus_score |-> Ratio(most_common[2], Len(ms)),
        unique_methodologies |-> unique_categories]

\* k papers scoring {experimental: 0.8} followed by n - k papers scoring
\* {qualitative: 0.5}
TwoGroups(n, k) ==
    [i \in 1..n |-> IF i <= k THEN << <<"experimental", 8>> >>
                              ELSE << <<"qualitative", 5>> >>]

InitMeth ==
    /\ pc = "methodologies"
    /\ EarlyIdle
    /\ LaterIdleExcept("meth")
    /\ \/ \E n \in 0..MaxMethodologies : methodologies \in [1..n -> MethodologyChoices]
       \/ \E n \in 0..MaxGroupPapers : \E k \in 0..n : methodologies = TwoGroups(n, k)
    /\ comparison = NoComparison

\* AnalysisManager._compare_methodologies, line 246
CompareMethodologiesCall ==
    /\ pc = "methodologies"
    /\ comparison' = CompareMethodologies(methodologies)
    /\ pc' = "compared"
    /\ UNCHANGED <<earlyVars, methodologies>>
    /\ LaterUnchangedExcept("meth")

NextMeth == CompareMethodologiesCall

SpecMeth == InitMeth /\ [][NextMeth]_vars

-----------------------------------------------------------------------------
(* Claims about the methodology comparison *)

Compared == pc = "compared"

\* the papers in which category c has a score above the threshold
PapersWith(c) ==
    {p \in DOMAIN methodologies :
        \E k \in DOMAIN methodologies[p] :
            methodologies[p][k][1] = c /\ methodologies[p][k][2] > PresenceThreshold}

CountIn(d, c) == IF HasKey(d, c) THEN Lookup(d, c) ELSE 0

\* equality of two fractions
SameRatio(r, a, b) == r.num * b = a * r.den

-----------------------------------------------------------------------------
(* ResearchPipeline and ChangelogManager *)

\* bound of the model: most papers acquire_papers returns to the pipeline
MaxPipelinePapers == 1

\* the literal "Received research query: " as one piece of text
QueryPrefix == "Received research query: "

\* query strings, as lists of pieces of text
Queries ==
    { <<"gan">>, <<"gan", " ", "survey">>,
      <<QueryPrefix, "gan">>, <<"gan", " ", QueryPrefix>> }

Projects == {"first", "resumed"}

\* the stage entries of a complete run, in order
StageSequence ==
    <<"query_received", "query_processed", "papers_acquired",
      "papers_processed", "analysis_completed", "reports_generated">>

\* seconds by which datetime.now() (naive local time) moves between two
\* entries; it moves back when the local clock is set back, which happens
\* at most once
ClockSteps == IF clock_set_back THEN {1} ELSE {1, -1}

\* _save_changelog: written, open() failed (file untouched), or the write
\* failed after open() truncated the file (the file then loads as empty)
SaveOutcomes == {"ok", "open_failed", "write_failed"}

\* ChangelogEntry, lines 24-43
Entry(entry_type, description, error_type, timestamp) ==
    [type |-> entry_type, description |-> description,
     error_type |-> error_type, timestamp |-> timestamp]

\* a plausible slip: a run records its entries under the first project id
Saved_underFirstProject(file, es, save) ==
    IF save = "ok" THEN [file EXCEPT !["first"] = es]
    ELSE IF save = "write_failed" THEN [file EXCEPT !["first"] = <<>>]
    ELSE file

\* the content of the project's file after _save_changelog of es
Saved(file, es, save) ==
    IF save = "ok" THEN [file EXCEPT ![project_id] = es]
    ELSE IF save = "write_failed" THEN [file EXCEPT ![project_id] = <<>>]
    ELSE file

\* lines 166-179: the except branch of process_query for exception err
\* raised at time t: add the error entry, then raise PipelineError; a
\* failure of that add_entry leaves the handler as a ChangelogError
HandleError(es, file, t, err, hsave) ==
    LET es2 == Append(es, Entry("error", <<"Error in research pipeline: ", err>>, err, t))
    IN /\ entries' = es2
       /\ changelog_file' = Saved(file, es2, hsave)
       /\ clock' = t
       /\ outcome' = IF hsave = "ok" THEN "PipelineError" ELSE "ChangelogError"
       /\ pc' = "idle"

\* one stage of process_query: the component runs (err is what it raises,
\* "none" if it returns) and the stage entry is added
Stage(next, entry_type, description, err, save, hsave, step) ==
    LET t == clock + step IN
    /\ clock_set_back' = (clock_set_back \/ step < 0)
    /\ IF err # "none"
       THEN HandleError(entries, changelog_file, t, err, hsave)
       ELSE LET es1 == Append(entries, Entry(entry_type, description, "none", t)) IN
            IF save = "ok"
            THEN /\ entries' = es1
                 /\ changelog_file' = Saved(changelog_file, es1, save)
                 /\ clock' = t
                 /\ pc' = next
                 /\ UNCHANGED outcome
            ELSE HandleError(es1, Saved(changelog_file, es1, save), t + 1,
                             "ChangelogError", hsave)

InitPipeline ==
    /\ pc = "pq_start"
    /\ EarlyIdle
    /\ LaterIdleExcept("pipe")
    /\ query \in Queries
    /\ original_query = query
    /\ project_id = "first"
    /\ changelog_file = [p \in Projects |-> <<>>]
    /\ entries = <<>>
    /\ clock = 0
    /\ clock_set_back = FALSE
    /\ paper_count = 0
    /\ outcome = "none"
    /\ via_resume = FALSE
    /\ status = NoStatus

\* process_query, lines 64-79
ReceiveQuery ==
    /\ pc = "pq_start"
    /\ \E save \in SaveOutcomes, hsave \in SaveOutcomes, step \in ClockSteps :
         Stage("pq_query", "query_received", <<QueryPrefix>> \o query,
               "none", save, hsave, step)
    /\ UNCHANGED <<earlyVars, query, project_id, paper_count, via_resume,
                   original_query, status>>
    /\ LaterUnchangedExcept("pipe")

\* process_query, lines 81-89
ProcessQueryText ==
    /\ pc = "pq_query"
    /\ \E err \in {"none", "QueryProcessingError"},
          save \in SaveOutcomes, hsave \in SaveOutcomes, step \in ClockSteps :
         Stage("pq_acquire", "query_processed", <<"Processed research query">>,
               err, save, hsave, step)
    /\ UNCHANGED <<earlyVars, query, project_id, paper_count, via_resume,
                   original_query, status>>
    /\ LaterUnchangedExcept("pipe")

\* process_query, lines 91-102
AcquirePapers ==
    /\ pc = "pq_acquire"
    /\ \E n \in 0..MaxPipelinePapers, err \in {"none", "AttributeError"},
          save \in SaveOutcomes, hsave \in SaveOutcomes, step \in ClockSteps :
         /\ paper_count' = IF err = "none" THEN n ELSE paper_count
         /\ Stage("pq_process", "papers_acquired", <<"Acquired papers">>,
                  err, save, hsave, step)
    /\ UNCHANGED <<earlyVars, query, project_id, via_resume, original_query, status>>
    /\ LaterUnchangedExcept("pipe")

\* process_query, lines 104-115: process_papers returns one ProcessedPaper
\* per paper; the entry's details read paper.processing_success, which
\* ProcessedPaper does not have
ProcessPapers ==
    /\ pc = "pq_process"
    /\ \E save \in SaveOutcomes, hsave \in SaveOutcomes, step \in ClockSteps :
         Stage("pq_analyze", "papers_processed", <<"Processed papers">>,
               IF paper_count > 0 THEN "AttributeError" ELSE "none",
               save, hsave, step)
    /\ UNCHANGED <<earlyVars, query, project_id, paper_count, via_resume,
                   original_query, status>>
    /\ LaterUnchangedExcept("pipe")

\* process_query, lines 117-129
AnalyzePapers ==
    /\ pc = "pq_analyze"
    /\ \E err \in {"none", "AnalysisError"},
          save \in SaveOutcomes, hsave \in SaveOutcomes, step \in ClockSteps :
         Stage("pq_report", "analysis_completed", <<"Completed analysis">>,
               err, save, hsave, step)
    /\ UNCHANGED <<earlyVars, query, project_id, paper_count, via_resume,
                   original_query, status>>
    /\ LaterUnchangedExcept("pipe")

\* process_query, lines 131-142
GenerateReports ==
    /\ pc = "pq_report"
    /\ \E err \in {"none", "ReportGenerationError"},
          save \in SaveOutcomes, hsave \in SaveOutcomes, step \in ClockSteps :
         Stage("pq_finish", "reports_generated", <<"Generated research reports">>,
               err, save, hsave, step)
    /\ UNCHANGED <<earlyVars, query, project_id, paper_count, via_resume,
                   original_query, status>>
    /\ LaterUnchangedExcept("pipe")

\* process_query, lines 144-164: the changelog report is written and the
\* results are returned
ReturnResults ==
    /\ pc = "pq_finish"
    /\ \E err \in {"none", "OSError"}, hsave \in SaveOutcomes, step \in ClockSteps :
         IF err = "none"
         THEN /\ outcome' = "returned"
              /\ pc' = "idle"
              /\ UNCHANGED <<entries, changelog_file, clock, clock_set_back>>
         ELSE /\ clock_set_back' = (clock_set_back \/ step < 0)
              /\ HandleError(entries, changelog_file, clock + step, err, hsave)
    /\ UNCHANGED <<earlyVars, query, project_id, paper_count, via_resume,
                   original_query, status>>
    /\ LaterUnchangedExcept("pipe")

\* str.replace(QueryPrefix, ""): every occurrence of the literal is removed
RemovePrefix(description) == SelectSeq(description, LAMBDA piece : piece # QueryPrefix)

\* the positions of the query_received entries
QueryEntries(es) == {i \in DOMAIN es : es[i].type = "query_received"}

\* resume_research, lines 191-216: the changelog of the first project is
\* loaded, the query is taken from its first query_received entry and
\* process_query is called with it; process_query draws a new project id
ResumeResearch ==
    /\ pc = "idle"
    /\ ~via_resume
    /\ LET loaded == changelog_file["first"] IN
       IF loaded = <<>> \/ QueryEntries(loaded) = {}
       THEN /\ outcome' = "PipelineError"
            /\ pc' = "resume_failed"
            /\ entries' = loaded
            /\ UNCHANGED <<query, project_id, via_resume, paper_count>>
       ELSE /\ query' = RemovePrefix(loaded[MinOf(QueryEntries(loaded))].description)
            /\ project_id' = "resumed"
            /\ entries' = <<>>
            /\ via_resume' = TRUE
            /\ paper_count' = 0
            /\ outcome' = "none"
            /\ pc' = "pq_start"
    /\ UNCHANGED <<earlyVars, changelog_file, clock, clock_set_back,
                   original_query, status>>
    /\ LaterUnchangedExcept("pipe")

\* insertion of entry e behind every entry that is not later than it
InsertByTimestamp(out, e) ==
    SelectSeq(out, LAMBDA d : d.timestamp <= e.timestamp) \o <<e>> \o
    SelectSeq(out, LAMBDA d : d.timestamp > e.timestamp)

RECURSIVE SortedByTimestamp(_, _, _)
\* get_entries, line 218: filtered_entries.sort(key=timestamp); without a
\* filter filtered_entries is self.entries itself (line 203)
SortedByTimestamp(es, k, out) ==
    IF k > Len(es) THEN out
    ELSE SortedByTimestamp(es, k + 1, InsertByTimestamp(out, es[k]))

EntryTypes == Range(StageSequence) \cup {"error"}

\* generate_summary, lines 246-267
GenerateSummary(es) ==
    [entry_count |-> Len(es),
     entry_counts_by_type |->
        [t \in {es[i].type : i \in DOMAIN es} |->
            Cardinality({i \in DOMAIN es : es[i].type = t})],
     first_timestamp |-> MinOf({es[i].timestamp : i \in DOMAIN es}),
     last_timestamp |-> MaxOf({es[i].timestamp : i \in DOMAIN es})]

\* get_project_status, lines 228-250, for project p
GetProjectStatus ==
    /\ pc = "idle"
    /\ \E p \in Projects :
         LET loaded == changelog_file[p] IN
         /\ project_id' = p
         /\ IF loaded = <<>>
            THEN /\ outcome' = "PipelineError"
                 /\ entries' = loaded
                 /\ status' = NoStatus
            ELSE LET summary == GenerateSummary(loaded)
                     sorted == SortedByTimestamp(loaded, 1, <<>>)
                 IN /\ entries' = sorted
                    /\ status' =
                         [project_id |-> p, summary |-> summary,
                          latest_entry |-> sorted[Len(sorted)],
                          is_completed |-> \E i \in DOMAIN sorted :
                                              sorted[i].type = "reports_generated",
                          has_error |-> \E i \in DOMAIN sorted :
                                              sorted[i].type = "error"]
                    /\ outcome' = "returned"
    /\ pc' = "status_done"
    /\ UNCHANGED <<earlyVars, query, changelog_file, clock, clock_set_back,
                   paper_count, via_resume, original_query>>
    /\ LaterUnchangedExcept("pipe")

NextPipeline ==
    \/ ReceiveQuery
    \/ ProcessQueryText
    \/ AcquirePapers
    \/ ProcessPapers
    \/ AnalyzePapers
    \/ GenerateReports
    \/ ReturnResults
    \/ ResumeResearch
    \/ GetProjectStatus

SpecPipeline == InitPipeline /\ [][NextPipeline]_vars

-----------------------------------------------------------------------------
(* Claims about the pipeline and its changelog *)

\* a call of process_query has ended
RunEnded == pc = "idle"

TypesOf(es) == [i \in DOMAIN es |-> es[i].type]

StageEntries(es) == SelectSeq(es, LAMBDA e : e.type # "error")

IsPrefix(s, t) == Len(s) <= Len(t) /\ \A i \in DOMAIN s : s[i] = t[i]

\* what a stage component or the changelog itself can raise
ComponentErrors ==
    {"QueryProcessingError", "AnalysisError", "ReportGenerationError",
     "ChangelogError", "OSError"}

\* C13 (as claimed): when every stage component returns without raising and
\* acquisition returned one or more papers, the changelog holds exactly the
\* six stage entries in order, holds no error entry, and process_query
\* returns; in every run the stage entries are a prefix of that sequence.
\* The run is taken here to be free of failures of the changelog writes too.
C13_CompleteRunRecorded ==
    /\ pc # "status_done" => IsPrefix(TypesOf(StageEntries(entries)), StageSequence)
    /\ (/\ RunEnded
        /\ paper_count >= 1
        /\ \A i \in DOMAIN entries : entries[i].error_type \notin ComponentErrors)
       => /\ TypesOf(entries) = StageSequence
          /\ outcome = "returned"

\* C14 (as claimed): whenever a step of process_query raises, a failure of a
\* changelog write included, the caller receives a PipelineError and the
\* project's changelog ends with an error entry recording the failure.
C14_ErrorSurfaced ==
    (RunEnded /\ outcome # "returned") =>
        /\ outcome = "PipelineError"
        /\ changelog_file[project_id] # <<>>
        /\ changelog_file[project_id][Len(changelog_file[project_id])].type = "error"

\* C15 (as claimed): resuming a project whose changelog holds the
\* query_received entry written by process_query(q) runs the pipeline again
\* with a query string identical, character for character, to q.
C15_ResumeVerbatim ==
    via_resume => query = original_query

\* C16 (as claimed): a status query is read-only: get_project_status, with
\* the reads it uses, appends no entry and leaves the project's entry
\* sequence unchanged in content and in order, whatever the timestamps of
\* the entries are.
C16_StatusReadOnly ==
    (pc = "status_done" /\ outcome = "returned") =>
        /\ entries = changelog_file[project_id]
        /\ status.summary.entry_count = Len(changelog_file[project_id])

-----------------------------------------------------------------------------
(* AnalysisManager.analyze *)

\* bound of the model: number of analyzed papers
MaxAnalyzedPapers == 2

\* the steps of analyze that call into a model or an engine
SubSteps == {"topic_modeling", "methodology_comparison", "findings_comparison",
             "research_gaps", "comparison_matrix"}

\* an analyzed paper: whether it has a 'methodologies' entry and whether it
\* has a non-empty 'findings' entry
AnalyzedPaperChoices == [methodologies : BOOLEAN, findings : BOOLEAN]

Failure(error) == [success |-> FALSE, error |-> error]

Success(results) == [success |-> TRUE, results |-> results]

\* _perform_topic_modeling, lines 181-219
PerformTopicModeling(papers) ==
    IF papers = <<>> THEN Failure("No text available for topic modeling")
    ELSE IF "topic_modeling" \in raising THEN Failure("topic_modeling raised")
    ELSE Success("topic_results")

\* _compare_methodologies, lines 231-258
CompareMethodologiesStep(papers) ==
    IF \A i \in DOMAIN papers : ~papers[i].methodologies
    THEN Failure("No methodologies available for comparison")
    ELSE IF "methodology_comparison" \in raising
    THEN Failure("methodology_comparison raised")
    ELSE Success("comparison")

\* _compare_findings, lines 270-303
CompareFindingsStep(papers) ==
    IF \A i \in DOMAIN papers : ~papers[i].findings
    THEN Failure("No findings available for comparison")
    ELSE IF "findings_comparison" \in raising
    THEN Failure("findings_comparison raised")
    ELSE Success("comparison")

\* lines 62 and 65: identify_research_gaps and generate_comparison_matrix
\* are called directly inside the try of analyze
DirectCallRaises(step) == step \in raising

\* analyze, lines 48-83
AnalyzeResult(papers) ==
    IF DirectCallRaises("research_gaps") \/ DirectCallRaises("comparison_matrix")
    THEN [kind |-> "AnalysisError"]
    ELSE [kind |-> "bundle",
          papers |-> papers,
          topic_analysis |-> PerformTopicModeling(papers),
          methodology_comparison |-> CompareMethodologiesStep(papers),
          findings_comparison |-> CompareFindingsStep(papers),
          research_gaps |-> "gaps",
          comparison_matrix |-> "matrix"]

InitAnalysis ==
    /\ pc = "analyze"
    /\ EarlyIdle
    /\ LaterIdleExcept("analysis")
    /\ \E n \in 0..MaxAnalyzedPapers : analyzed_papers \in [1..n -> AnalyzedPaperChoices]
    /\ raising \in SUBSET SubSteps
    /\ analysis_results = NoAnalysis

Analyze ==
    /\ pc = "analyze"
    /\ analysis_results' = AnalyzeResult(analyzed_papers)
    /\ pc' = "analyzed"
    /\ UNCHANGED <<earlyVars, analyzed_papers, raising>>
    /\ LaterUnchangedExcept("analysis")

NextAnalysis == Analyze

SpecAnalysis == InitAnalysis /\ [][NextAnalysis]_vars

-----------------------------------------------------------------------------
(* Claims about analyze *)

Analyzed == pc = "analyzed"

\* the sub-steps the claim names
ComparativeSubSteps == {"methodology_comparison", "findings_comparison",
                        "research_gaps", "comparison_matrix"}

\* C17 (as claimed): if a single comparative-analysis sub-step (methodology
\* comparison, findings comparison, research-gap identification,
\* comparison-matrix generation) raises, analyze still returns a result
\* bundle: the whole analysis is not aborted.
C17_SubStepFailureIsolated ==
    (Analyzed /\ Cardinality(raising) = 1 /\ raising \subseteq ComparativeSubSteps)
        => analysis_results.kind = "bundle"

-----------------------------------------------------------------------------
(* SpecClient: one search or get_paper call on a SemanticScholarClient, down
   to the session that retries the request *)

\* bound of the model: the largest retry_attempts of a client
MaxRetryAttempts == 2

\* the statuses a server answers with
Statuses == {200, 404, 429, 503}

\* _create_session: status_forcelist of the retry strategy
StatusForcelist == {429, 500, 502, 503, 504}

\* values of the Retry-After header of an answer
RetryAfterHeaders == {"absent", "30", "120", "soon"}

\* what a call returns
OperationReturned == [kind |-> "returned", status_code |-> <<>>, retry_after |-> <<>>]

\* an exception of class kind; status_code and retry_after are <<>> for None
Raised(kind, status_code, delay) ==
    [kind |-> kind, status_code |-> status_code, retry_after |-> delay]

\* APIError.__init__ with the keyword status_code
APIError(status_code) == Raised("APIError", status_code, <<>>)

\* RateLimitError.__init__: the status_code of the base class stays None
RateLimitError(delay) == Raised("RateLimitError", <<>>, delay)

\* _handle_response, lines 123-128: the header as an int, None when it is
\* absent or not a number
ParseRetryAfter(header) ==
    IF header = "30" THEN <<30>>
    ELSE IF header = "120" THEN <<120>>
    ELSE <<>>

\* the status that ends the request: the session sends the request again
\* while the answer's status is in the forcelist and retries are left
RECURSIVE FinalAttempt(_, _, _)
FinalAttempt(answers, k, budget) ==
    IF answers[k] \in StatusForcelist /\ budget > 0 /\ k < Len(answers)
    THEN FinalAttempt(answers, k + 1, budget - 1)
    ELSE k

\* session.get under the retry strategy of _create_session: an answer in the
\* forcelist with no retry left raises RetryError, any other answer is returned
SessionGet(answers, budget) ==
    LET k == FinalAttempt(answers, 1, budget)
    IN IF answers[k] \in StatusForcelist
       THEN Raised("RetryError", <<>>, <<>>)
       ELSE [kind |-> "response", status_code |-> <<answers[k]>>, retry_after |-> <<>>]

\* _handle_response: raise_for_status, then RateLimitError for 429 and
\* APIError with the status for every other failed status
HandleResponse(code, header) ==
    IF code < 400 THEN OperationReturned
    ELSE IF code = 429 THEN RateLimitError(ParseRetryAfter(header))
    ELSE APIError(<<code>>)

\* APIClient.get: the session's answer goes through _handle_response, an
\* exception of the session propagates
Get(answers, budget, header) ==
    LET response == SessionGet(answers, budget)
    IN IF response.kind = "response"
       THEN HandleResponse(response.status_code[1], header)
       ELSE response

\* search lines 136-138, get_paper lines 197-199: every exception of get is
\* replaced by an APIError built without status_code
Wrapped(got) == IF got.kind = "returned" THEN got ELSE APIError(<<>>)

\* SemanticScholarClient.search / get_paper
ClientOperation(answers, budget, header) == Wrapped(Get(answers, budget, header))

InitClient ==
    /\ pc = "client_call"
    /\ hashOrder = "fwd"
    /\ all_papers = <<>>
    /\ unique_papers = <<>>
    /\ groups = <<>>
    /\ merge_log = NoMerge
    /\ AcquisitionIdle
    /\ ClusterIdle
    /\ LaterIdleExcept("client")
    /\ rate_limit = 1
    /\ now = 0
    /\ request_timestamps = <<>>
    /\ issued = <<>>
    /\ retry_attempts \in 0..MaxRetryAttempts
    /\ responses \in [1..(retry_attempts + 1) -> Statuses]
    /\ retry_after \in RetryAfterHeaders
    /\ operation \in {"search", "get_paper"}
    /\ caller_sees = NoCall

\* one call of search or get_paper on a fresh client: get records the request
\* for the rate limit, sends it through the session, and the operation wraps
\* what get raised
CallOperation ==
    /\ pc = "client_call"
    /\ request_timestamps' = Append(Pruned(request_timestamps, now), now)
    /\ issued' = Append(issued, [ts |-> now, at |-> now + WaitTime(Pruned(request_timestamps, now), now)])
    /\ caller_sees' = ClientOperation(responses, retry_attempts, retry_after)
    /\ pc' = "client_done"
    /\ UNCHANGED <<dedupVars, merge_log, worldVars, papers_per_source, paper_ids,
                   enrich_log, result, clusterVars, rate_limit, now,
                   retry_attempts, responses, retry_after, operation>>
    /\ LaterUnchangedExcept("client")

NextClient == CallOperation

SpecClient == InitClient /\ [][NextClient]_vars

-----------------------------------------------------------------------------
(* Claims about the errors of a client *)

CallDone == pc = "client_done"

\* the status of the last answer the session received
LastStatus == responses[FinalAttempt(responses, 1, retry_attempts)]

\* the retry budget is exhausted: every attempt the session may make was made
BudgetExhausted == FinalAttempt(responses, 1, retry_attempts) = retry_attempts + 1

\* C18 (as claimed): seen by the caller of search or get_paper, a request that
\* still receives 429 once the retry budget is exhausted fails with a
\* RateLimitError carrying the retry delay of the answer, and a request ending
\* in any other failed status fails with an APIError carrying that status.
C18_ErrorsCarryStatus ==
    CallDone =>
        /\ (LastStatus = 429 /\ BudgetExhausted) =>
              /\ caller_sees.kind = "RateLimitError"
              /\ caller_sees.retry_after = ParseRetryAfter(retry_after)
        /\ (LastStatus >= 400 /\ LastStatus # 429) =>
              /\ caller_sees.kind = "APIError"
              /\ caller_sees.status_code = <<LastStatus>>

-----------------------------------------------------------------------------
(* SpecNumeric: compare_numerical_results applied to small lists of papers.
   A finding text is modelled by the parts the pattern of line 232 looks at:
   the word that may end in a metric name, the connective after it, the
   number and what follows the number. Values are exact, in units of 1/10000. *)

\* bound of the model: papers given to one comparison
MaxNumericPapers == 2

\* line 226: the metric names, in the order they are tried
Metrics == <<"accuracy", "precision", "recall", "f1", "f1 score",
             "auc", "roc", "mae", "mse", "rmse", "error rate">>

\* the finding texts of the model
Text(word, connective, number, suffix) ==
    [word |-> word, connective |-> connective, number |-> number, suffix |-> suffix]

\* "accuracy of 95%" and "accuracy is 0.90"
ExampleTexts == <<Text("accuracy", "of", "95", "%"), Text("accuracy", "is", "0.90", "")>>

FindingTextChoices ==
    {Text(w, c, n, s) : w \in {"accuracy", "RMSE"}, c \in {"of", "reached"},
                        n \in {"0.90", "95", "1"}, s \in {"", "%", "percent"}}
        \cup Range(ExampleTexts)

\* a paper: its 'findings' key may be missing
PaperWith(fs) == [has_findings |-> TRUE, findings |-> fs]
PaperWithoutFindings == [has_findings |-> FALSE, findings |-> <<>>]

NumericPaperChoices ==
    {PaperWithoutFindings, PaperWith(<<>>)}
        \cup {PaperWith(<<f>>) : f \in FindingTextChoices}
        \cup {PaperWith(<<f, g>>) : f, g \in Range(ExampleTexts)}

\* re.IGNORECASE: the word as the pattern compares it
Lower(word) == IF word = "RMSE" THEN "rmse" ELSE word

\* the metric names a lower-case word ends with: the pattern is searched
\* anywhere in the text, so "mse" is found inside "rmse"
EndingsOf(word) ==
    IF word = "rmse" THEN {"rmse", "mse"}
    ELSE IF word \in Range(Metrics) THEN {word}
    ELSE {}

\* line 232: after the metric and white space an optional of / is / was / :
\* and then the number; any other word before the number defeats the match
PatternFinds(metric, text) ==
    /\ metric \in EndingsOf(Lower(text.word))
    /\ text.connective \in {"of", "is", "was", ":", ""}

\* float(match.group(1))
Float(number) ==
    IF number = "0.90" THEN 9000
    ELSE IF number = "95" THEN 950000
    ELSE 10000

\* a plausible slip: every value followed by a percent marker is divided
Normalized_always(text) ==
    IF text.suffix \in {"%", "percent"} THEN Float(text.number) \div 100
    ELSE Float(text.number)

\* lines 236-241: the value, divided by 100 when the match holds a percent
\* marker and the value is above 1
Normalized(text) ==
    IF text.suffix \in {"%", "percent"} /\ Float(text.number) > 10000
    THEN Float(text.number) \div 100
    ELSE Float(text.number)

\* lines 220-249 for one metric: the entries appended to
\* numerical_results[metric] by the findings fs[j..] of paper paper_idx
RECURSIVE FindingResults(_, _, _, _)
FindingResults(metric, paper_idx, fs, j) ==
    IF j > Len(fs) THEN <<>>
    ELSE (IF PatternFinds(metric, fs[j])
          THEN <<[paper_idx |-> paper_idx, value |-> Normalized(fs[j]), text |-> fs[j]]>>
          ELSE <<>>) \o FindingResults(metric, paper_idx, fs, j + 1)

\* lines 216-249: numerical_results[metric] after the papers ps[i..]; a paper
\* without 'findings' is skipped, paper_idx counts from 0
RECURSIVE NumericalResults(_, _, _)
NumericalResults(metric, ps, i) ==
    IF i > Len(ps) THEN <<>>
    ELSE (IF ps[i].has_findings
          THEN FindingResults(metric, i - 1, ps[i].findings, 1)
          ELSE <<>>) \o NumericalResults(metric, ps, i + 1)

RECURSIVE SumSeq(_)
SumSeq(s) == IF s = <<>> THEN 0 ELSE Head(s) + SumSeq(Tail(s))

\* lines 259-266: the statistics of one metric; mean is sum(values) /
\* len(values), kept as the fraction; std is left out
MetricStats(results) ==
    LET values == [k \in DOMAIN results |-> results[k].value]
    IN [min |-> MinOf(Range(values)),
        max |-> MaxOf(Range(values)),
        mean |-> [num |-> SumSeq(values), den |-> Len(values)],
        count |-> Len(values),
        results |-> results]

\* compare_numerical_results
CompareNumericalResults(ps) ==
    LET found == {m \in Range(Metrics) : NumericalResults(m, ps, 1) # <<>>}
        metric_stats == [m \in found |-> MetricStats(NumericalResults(m, ps, 1))]
    IN [done |-> TRUE,
        metrics |-> metric_stats,
        has_comparable_results |-> found # {}]

InitNumeric ==
    /\ pc = "numeric"
    /\ EarlyIdle
    /\ LaterIdleExcept("numeric")
    /\ \E n \in 0..MaxNumericPapers : numeric_papers \in [1..n -> NumericPaperChoices]
    /\ numeric_comparison = NoNumeric

CompareNumericalResultsCall ==
    /\ pc = "numeric"
    /\ numeric_comparison' = CompareNumericalResults(numeric_papers)
    /\ pc' = "numeric_compared"
    /\ UNCHANGED <<earlyVars, numeric_papers>>
    /\ LaterUnchangedExcept("numeric")

NextNumeric == CompareNumericalResultsCall

SpecNumeric == InitNumeric /\ [][NextNumeric]_vars

-----------------------------------------------------------------------------
(* Claims about the numerical comparison *)

NumericCompared == pc = "numeric_compared"

\* the findings of all papers in which metric m is matched, as <<paper, finding>>
MatchedAt(m) ==
    UNION {{<<i, j>> : j \in {k \in DOMAIN numeric_papers[i].findings :
                                  PatternFinds(m, numeric_papers[i].findings[k])}} :
           i \in {k \in DOMAIN numeric_papers : numeric_papers[k].has_findings}}

\* the claimed normalisation of the finding at <<paper, finding>>
ClaimedValue(at) ==
    LET text == numeric_papers[at[1]].findings[at[2]]
        raw == Float(text.number)
    IN IF text.suffix # "" /\ raw > 10000 THEN raw \div 100 ELSE raw

RECURSIVE SumClaimed(_)
SumClaimed(S) ==
    IF S = {} THEN 0
    ELSE LET at == CHOOSE x \in S : TRUE IN ClaimedValue(at) + SumClaimed(S \ {at})

\* the findings ["accuracy of 95%", "accuracy is 0.90"] of one paper
ExamplePapers == <<PaperWith(ExampleTexts)>>

\* C19: a matched value is divided by 100 iff a percent marker follows it and
\* the raw value is above 1, and is kept otherwise; per metric the count, min,
\* max and mean of these values over all papers are reported; the findings
\* "accuracy of 95%" and "accuracy is 0.90" give 0.95 and 0.90, count 2 and
\* mean 0.925.
C19_NumericAggregation ==
    NumericCompared =>
        /\ \A m \in Range(Metrics) :
             IF MatchedAt(m) = {} THEN m \notin DOMAIN numeric_comparison.metrics
             ELSE /\ m \in DOMAIN numeric_comparison.metrics
                  /\ LET stats == numeric_comparison.metrics[m]
                         claimed == {ClaimedValue(at) : at \in MatchedAt(m)}
                     IN /\ stats.count = Cardinality(MatchedAt(m))
                        /\ stats.min = MinOf(claimed)
                        /\ stats.max = MaxOf(claimed)
                        /\ stats.mean.num = SumClaimed(MatchedAt(m))
                        /\ stats.mean.den = stats.count
        /\ numeric_papers = ExamplePapers =>
             LET stats == numeric_comparison.metrics["accuracy"]
             IN /\ [k \in DOMAIN stats.results |-> stats.results[k].value] = <<9500, 9000>>
                /\ stats.count = 2
                /\ stats.mean.num = 9250 * stats.mean.den

\* the example has been aggregated
C19_Witness ==
    /\ NumericCompared
    /\ numeric_papers = ExamplePapers
    /\ numeric_comparison.metrics["accuracy"].count = 2
    /\ numeric_comparison.metrics["accuracy"].min = 9000
    /\ numeric_comparison.metrics["accuracy"].max = 9500

-----------------------------------------------------------------------------
(* Claims about which survivors are enriched *)

\* the enrichment task that completes in this step, 0 when none does
CompletingTask ==
    IF pc = "enrich" /\ Len(enrich_log') = Len(enrich_log) + 1
    THEN enrich_log'[Len(enrich_log')].task ELSE 0

\* C20 (as claimed): the fallback source is queried only for a survivor that
\* lacks both an abstract and a positive citation count; a survivor that has
\* an abstract, or has a positive citation count, is returned by its
\* enrichment task without any fallback request.
C20_FallbackOnlyWhenBothMissing ==
    [][\A i \in DOMAIN unique_papers :
          (/\ CompletingTask = i
           /\ \/ Truthy(unique_papers[i].abstract)
              \/ unique_papers[i].citation_count > 0)
              => enrich_log'[Len(enrich_log')].lookups = 0]_vars

-----------------------------------------------------------------------------
(* SpecEnrich: _enrich_paper applied to one survivor, for every combination
   of populated and missing fields and every answer of the fallback source *)

\* a survivor of the deduplication, each field populated or not
SurvivorWith(source, abstract, doi, venue, year, citation_count) ==
    [id |-> <<source, "id-1">>, title |-> <<"T">>, doi |-> doi,
     abstract |-> abstract, year |-> year, venue |-> venue,
     url |-> "url-1", pdf_url |-> "None",
     source |-> source, source_id |-> "id-1",
     keywords |-> <<>>, categories |-> <<"cat">>,
     citation_count |-> citation_count]

InitEnrich ==
    /\ pc = "enrich_one"
    /\ EarlyIdle
    /\ LaterIdleExcept("enrich")
    /\ \E source \in {"arxiv", "semantic_scholar"}, abstract \in {"", "A-own"},
          doi \in {"None", "10.1/own"}, venue \in {"None", "V-own"},
          year \in {0, 2011}, citation_count \in {0, 3, 9} :
         survivor = SurvivorWith(source, abstract, doi, venue, year, citation_count)
    /\ by_doi_answer \in FallbackResponses
    /\ by_id_answer \in FallbackResponses
    /\ enriched = NoPaper

\* _enrich_paper(paper)
EnrichOne ==
    /\ pc = "enrich_one"
    /\ enriched' = EnrichPaper(survivor, by_doi_answer, by_id_answer).paper
    /\ pc' = "enriched_one"
    /\ UNCHANGED <<earlyVars, survivor, by_doi_answer, by_id_answer>>
    /\ LaterUnchangedExcept("enrich")

NextEnrich == EnrichOne

SpecEnrich == InitEnrich /\ [][NextEnrich]_vars

-----------------------------------------------------------------------------
(* Claims about what enrichment changes *)

EnrichedOne == pc = "enriched_one"

\* C21 (as claimed): enrichment only backfills: no field of a survivor that
\* was populated before enrichment (abstract, year, venue, doi, url, pdf_url,
\* a positive citation_count, title, id) has a different value after it,
\* whatever the fallback source returns.
C21_EnrichOnlyBackfills ==
    EnrichedOne =>
        /\ Truthy(survivor.abstract) => enriched.abstract = survivor.abstract
        /\ TruthyInt(survivor.year) => enriched.year = survivor.year
        /\ Truthy(survivor.venue) => enriched.venue = survivor.venue
        /\ Truthy(survivor.doi) => enriched.doi = survivor.doi
        /\ Truthy(survivor.url) => enriched.url = survivor.url
        /\ Truthy(survivor.pdf_url) => enriched.pdf_url = survivor.pdf_url
        /\ survivor.citation_count > 0 => enriched.citation_count = survivor.citation_count
        /\ enriched.title = survivor.title
        /\ enriched.id = survivor.id

-----------------------------------------------------------------------------
(* Claims about the sources acquire_papers queries *)

\* the sources queried for this query: arXiv, Semantic Scholar and, when it
\* is enabled, PubMed
NumEnabledSources == IF QueriesPubmed THEN 3 ELSE 2

\* the budget has been computed and passed to the first search
BudgetComputed == pc \in {"semantic_scholar", "pubmed", "dedup", "enrich", "returned"}

\* C22 (as claimed): the result budget passed to every source search equals
\* max(5, max_papers / numEnabledSources), numEnabledSources being the number
\* of sources queried for this query (2 without PubMed, 3 with it).
C22_BudgetPerEnabledSource ==
    BudgetComputed =>
        papers_per_source = Max2(5, max_papers \div NumEnabledSources)

-----------------------------------------------------------------------------
(* SpecQueryAcq: the domain of the query is identified by the query
   processor, then acquire_papers runs on that query *)

\* settings.allowed_domains: the labels given to the classifier
AllowedDomains == {"computer_science", "physics", "mathematics", "biology",
                   "medicine", "chemistry", "economics", "psychology"}

\* lines 287-297: domain_mapping.get(top_domain)
DomainMapping(label) ==
    CASE label = "computer_science" -> "cs"
      [] label = "physics" -> "physics"
      [] label = "mathematics" -> "math"
      [] label = "biology" -> "q-bio"
      [] label = "medicine" -> "med"
      [] label = "chemistry" -> "chem"
      [] label = "economics" -> "econ"
      [] label = "psychology" -> "psych"
      [] OTHER -> "None"

\* _identify_domain: the code of the first label when its score, in tenths,
\* is above 0.5, None otherwise
IdentifyDomain(label, score) ==
    IF score > 5 THEN DomainMapping(label) ELSE "None"

InitQueryAcq ==
    /\ pc = "classify"
    /\ top_domain \in AllowedDomains
    /\ confidence \in {5, 6}
    /\ domain = "unset"
    /\ hashOrder \in {"fwd", "rev"}
    /\ max_papers \in MaxPapersChoices
    /\ pubmed_client \in BOOLEAN
    /\ arxiv_resp \in SearchOutcomes("arxiv")
    /\ ss_resp \in SearchOutcomes("semantic_scholar")
    /\ IF pubmed_client /\ IdentifyDomain(top_domain, confidence) \in PubmedDomains
       THEN pubmed_resp \in SearchOutcomes("pubmed")
       ELSE pubmed_resp = NoResponse
    /\ papers_per_source = 0
    /\ paper_ids = {}
    /\ all_papers = <<>>
    /\ unique_papers = <<>>
    /\ groups = <<>>
    /\ merge_log = NoMerge
    /\ enrich_log = <<>>
    /\ result = <<>>
    /\ RateIdle
    /\ ClusterIdle
    /\ LaterIdleExcept("classify")

\* QueryProcessor.process_query, line 174: the domain of the structured query
IdentifyDomainStep ==
    /\ pc = "classify"
    /\ domain' = IdentifyDomain(top_domain, confidence)
    /\ pc' = "arxiv"
    /\ UNCHANGED <<hashOrder, max_papers, pubmed_client, arxiv_resp, ss_resp,
                   pubmed_resp, dedupVars, merge_log, papers_per_source,
                   paper_ids, enrich_log, result, nonAcqVars>>

NextQueryAcq == IdentifyDomainStep \/ NextAcq

SpecQueryAcq == InitQueryAcq /\ [][NextQueryAcq]_vars

-----------------------------------------------------------------------------
(* Claims about when PubMed is queried *)

\* the query is classified, with enough confidence, as one of the three
\* domains the biomedical source serves
ClassifiedBiomedical ==
    confidence > 5 /\ top_domain \in {"medicine", "biology", "chemistry"}

\* C23 (as claimed): PubMed is queried in acquire_papers if and only if a
\* PubMed client is configured and the query was classified as medicine,
\* biology or chemistry; for every other domain or no domain it is not.
C23_PubmedForBiomedicalDomains ==
    pc = "pubmed" => (QueriesPubmed <=> (pubmed_client /\ ClassifiedBiomedical))

-----------------------------------------------------------------------------
(* Claims about the order in which clusters claim findings *)

\* the seed of a cluster: the finding its member list starts with
SeedOf(c) == clusters[c].members[1]

\* the findings claimed by the clusters whose seed comes before finding s
ClaimedBefore(s) ==
    UNION {Range(clusters[d].members) : d \in {e \in DOMAIN clusters : SeedOf(e) < s}}

\* the seeds, other than k itself, that finding k is similar to
SeedsSimilarTo(k) ==
    {SeedOf(c) : c \in {d \in DOMAIN clusters :
                          /\ SeedOf(d) # k
                          /\ similarity_matrix[SeedOf(d)][k] > Threshold}}

\* the clusters that list finding k
ClustersOf(k) == {c \in DOMAIN clusters : k \in Range(clusters[c].members)}

\* C24: clustering is greedy and first-seed-wins: seeds are taken in input
\* order among the findings not yet assigned, a finding not yet assigned joins
\* the seed's cluster iff its similarity to the seed is strictly above the
\* threshold, the representative text is the seed's text, and a finding
\* similar to several seeds is in the cluster of the seed with the smallest
\* index and in no other.
C24_GreedyFirstSeedWins ==
    Clustered =>
        /\ \A c \in DOMAIN clusters :
             /\ SeedOf(c) \notin ClaimedBefore(SeedOf(c))
             /\ Range(Tail(clusters[c].members)) =
                   {j \in DOMAIN findings :
                       /\ similarity_matrix[SeedOf(c)][j] > Threshold
                       /\ j \notin ClaimedBefore(SeedOf(c))}
             /\ clusters[c].representative = findings[SeedOf(c)].text
        /\ \A k \in DOMAIN findings :
             (k \notin {SeedOf(c) : c \in DOMAIN clusters} /\ SeedsSimilarTo(k) # {})
                 => \A c \in DOMAIN clusters :
                       c \in ClustersOf(k) <=> SeedOf(c) = MinOf(SeedsSimilarTo(k))

\* the second of three findings is similar to the first and to the third,
\* which are seeds and not similar to each other: it is claimed by the first
C24_Witness ==
    /\ Clustered
    /\ Len(findings) = 3
    /\ SeedsSimilarTo(2) = {1, 3}
    /\ similarity_matrix[1][3] = Threshold
    /\ similarity_matrix[3][1] = Threshold
    /\ \E c \in DOMAIN clusters :
          /\ SeedOf(c) = 1
          /\ ClustersOf(2) = {c}
          /\ clusters[c].representative = "finding 1"

\* the diagonal of the similarity matrix is 1.0: every finding is similar to
\* itself
UnitDiagonal == \A i \in DOMAIN findings : similarity_matrix[i][i] = 10

\* how many times finding k is listed in the member lists of the clusters
RECURSIVE Occurrences(_, _)
Occurrences(k, c) ==
    IF c > Len(clusters) THEN 0
    ELSE Len(SelectSeq(clusters[c].members, LAMBDA m : m = k)) + Occurrences(k, c + 1)

RECURSIVE TotalSize(_)
TotalSize(c) == IF c > Len(clusters) THEN 0 ELSE clusters[c].size + TotalSize(c + 1)

\* C27 (as claimed): for a similarity matrix with diagonal 1.0, every finding
\* occurs exactly once in the member lists of the clusters, the sizes of the
\* clusters add up to the number of findings, and a finding similar to no
\* other finding forms a cluster of size 1.
C27_EachFindingListedOnce ==
    (Clustered /\ UnitDiagonal) =>
        /\ \A k \in DOMAIN findings : Occurrences(k, 1) = 1
        /\ TotalSize(1) = Len(findings)
        /\ \A c \in DOMAIN clusters :
             Range(clusters[c].members) = {SeedOf(c)} => clusters[c].size = 1

-----------------------------------------------------------------------------
(* SpecWorkers: several threads call get on one client, as the enrichment
   workers do with the shared Semantic Scholar client. _check_rate_limit
   holds no lock, so the threads interleave between its statements. *)

\* bound of the model: threads calling the client, one request each
MaxWorkers == 3

Workers == 1..MaxWorkers

InitWorkers ==
    /\ pc = "workers"
    /\ hashOrder = "fwd"
    /\ all_papers = <<>>
    /\ unique_papers = <<>>
    /\ groups = <<>>
    /\ merge_log = NoMerge
    /\ AcquisitionIdle
    /\ ClusterIdle
    /\ LaterIdleExcept("workers")
    /\ rate_limit \in 1..MaxRateLimit
    /\ now = 0
    /\ request_timestamps = <<>>
    /\ issued = <<>>
    /\ worker_pc = [w \in Workers |-> "call"]
    /\ worker_time = [w \in Workers |-> 0]
    /\ worker_list = [w \in Workers |-> <<>>]
    /\ worker_wake = [w \in Workers |-> 0]

\* what a step of a thread inside _check_rate_limit leaves alone
WorkerFrame ==
    /\ pc = "workers"
    /\ UNCHANGED <<pc, dedupVars, merge_log, worldVars, papers_per_source, paper_ids,
                   enrich_log, result, clusterVars>>
    /\ LaterUnchangedExcept("workers")

\* lines 72-76, right-hand side: the thread reads the clock and builds the
\* list of the timestamps younger than the window
BuildPruned(w) ==
    /\ WorkerFrame
    /\ worker_pc[w] = "call"
    /\ worker_time' = [worker_time EXCEPT ![w] = now]
    /\ worker_list' = [worker_list EXCEPT ![w] = Pruned(request_timestamps, now)]
    /\ worker_pc' = [worker_pc EXCEPT ![w] = "store"]
    /\ UNCHANGED <<rateVars, worker_wake>>

\* line 75, the assignment: self.request_timestamps = <the list built>
StorePruned(w) ==
    /\ WorkerFrame
    /\ worker_pc[w] = "store"
    /\ request_timestamps' = worker_list[w]
    /\ worker_pc' = [worker_pc EXCEPT ![w] = "check"]
    /\ UNCHANGED <<rate_limit, now, issued, worker_time, worker_list, worker_wake>>

\* lines 79-85: the limit is tested on the list now held by the client; the
\* thread sleeps when the limit is reached and the wait is positive
CheckLimit(w) ==
    /\ WorkerFrame
    /\ worker_pc[w] = "check"
    /\ LET wait_time == WaitTime(request_timestamps, worker_time[w]) IN
       IF wait_time > 0
       THEN /\ worker_wake' = [worker_wake EXCEPT ![w] = now + wait_time]
            /\ worker_pc' = [worker_pc EXCEPT ![w] = "sleep"]
       ELSE /\ worker_pc' = [worker_pc EXCEPT ![w] = "append"]
            /\ UNCHANGED worker_wake
    /\ UNCHANGED <<rateVars, worker_time, worker_list>>

\* line 85: time.sleep(wait_time) returns
WakeUp(w) ==
    /\ WorkerFrame
    /\ worker_pc[w] = "sleep"
    /\ now' = IF worker_wake[w] > now THEN worker_wake[w] ELSE now
    /\ worker_pc' = [worker_pc EXCEPT ![w] = "append"]
    /\ UNCHANGED <<rate_limit, request_timestamps, issued, worker_time, worker_list,
                   worker_wake>>

\* line 88 and get, line 167: current_time is appended to the list the client
\* holds and the request is sent
AppendAndSend(w) ==
    /\ WorkerFrame
    /\ worker_pc[w] = "append"
    /\ request_timestamps' = Append(request_timestamps, worker_time[w])
    /\ issued' = Append(issued, [ts |-> worker_time[w], at |-> now])
    /\ worker_pc' = [worker_pc EXCEPT ![w] = "sent"]
    /\ UNCHANGED <<rate_limit, now, worker_time, worker_list, worker_wake>>

NextWorkers ==
    \E w \in Workers :
        \/ BuildPruned(w)
        \/ StorePruned(w)
        \/ CheckLimit(w)
        \/ WakeUp(w)
        \/ AppendAndSend(w)

SpecWorkers == InitWorkers /\ [][NextWorkers]_vars

-----------------------------------------------------------------------------
(* Claims about concurrent calls on one client *)

\* the timestamps of s that are younger than the window now
Recent(s) == SelectSeq(s, LAMBDA ts : now - ts < Window)

IssuedTimestamps == [n \in DOMAIN issued |-> issued[n].ts]

\* C25 (as claimed): under concurrent calls on one client the timestamp of
\* every issued request is recorded in the client's window (no lost update),
\* and no more than rateLimit requests of the client are issued in any
\* 60-second interval.
C25_WindowUpdatedAtomically ==
    /\ Len(Recent(IssuedTimestamps)) <= Len(Recent(request_timestamps))
    /\ \A n \in DOMAIN issued : Cardinality(SentBefore(n)) < rate_limit

-----------------------------------------------------------------------------
(* SpecChangelog: ChangelogManager instances constructed on the same project
   and the add_entry calls made through them *)

\* bounds of the model: managers of the project, add_entry calls
MaxManagers == 2
MaxAdded == 4

Managers == 1..MaxManagers

InitChangelog ==
    /\ pc = "changelog"
    /\ EarlyIdle
    /\ LaterIdleExcept("changelog")
    /\ shared_file = <<>>
    /\ manager_loaded = [m \in Managers |-> FALSE]
    /\ manager_entries = [m \in Managers |-> <<>>]
    /\ added = 0

\* ChangelogManager.__init__: entries is what _load_changelog reads from the
\* file, [] when the file is missing or unreadable
Construct(m) ==
    /\ pc = "changelog"
    /\ ~manager_loaded[m]
    /\ manager_loaded' = [manager_loaded EXCEPT ![m] = TRUE]
    /\ manager_entries' = [manager_entries EXCEPT ![m] = shared_file]
    /\ UNCHANGED <<pc, earlyVars, shared_file, added>>
    /\ LaterUnchangedExcept("changelog")

\* _save_changelog of the list es: the file is rewritten as a whole; it is
\* left alone when open fails and left empty when the dump fails
SavedFile(file, es, save) ==
    IF save = "ok" THEN es
    ELSE IF save = "write_failed" THEN <<>>
    ELSE file

\* add_entry on manager m: the entry is appended to self.entries and the
\* whole list is saved
AddEntry(m) ==
    /\ pc = "changelog"
    /\ manager_loaded[m]
    /\ added < MaxAdded
    /\ \E save \in SaveOutcomes :
         LET es == Append(manager_entries[m],
                          Entry("note", <<"entry">>, "none", added + 1))
         IN /\ manager_entries' = [manager_entries EXCEPT ![m] = es]
            /\ shared_file' = SavedFile(shared_file, es, save)
    /\ added' = added + 1
    /\ UNCHANGED <<pc, earlyVars, manager_loaded>>
    /\ LaterUnchangedExcept("changelog")

NextChangelog == \E m \in Managers : Construct(m) \/ AddEntry(m)

SpecChangelog == InitChangelog /\ [][NextChangelog]_vars

-----------------------------------------------------------------------------
(* Claims about the changelog of a project *)

\* C26 (as claimed): the changelog of a project is append-only: across every
\* add_entry call, made through one or several managers of the project, the
\* log before the call is a prefix of the log after it.
C26_ChangelogAppendOnly ==
    [][added' = added + 1 => IsPrefix(shared_file, shared_file')]_vars

-----------------------------------------------------------------------------
(* SpecRepeat: acquire_papers called twice on the same AcquisitionManager,
   as the pipeline does for successive queries, with the same query and the
   same answers of the sources *)

InitRepeat ==
    /\ pc = "arxiv"
    /\ hashOrder \in {"fwd", "rev"}
    /\ max_papers \in MaxPapersChoices
    /\ pubmed_client \in BOOLEAN
    /\ domain \in Domains
    /\ arxiv_resp \in SearchOutcomes("arxiv")
    /\ ss_resp \in SearchOutcomes("semantic_scholar")
    /\ IF QueriesPubmed
       THEN pubmed_resp \in SearchOutcomes("pubmed")
       ELSE pubmed_resp = NoResponse
    /\ papers_per_source = 0
    /\ paper_ids = {}
    /\ all_papers = <<>>
    /\ unique_papers = <<>>
    /\ groups = <<>>
    /\ merge_log = NoMerge
    /\ enrich_log = <<>>
    /\ result = <<>>
    /\ RateIdle
    /\ ClusterIdle
    /\ LaterIdleExcept("repeat")
    /\ calls = 1
    /\ first_result = <<>>

\* the second call of acquire_papers: its locals start empty (line 212),
\* self.paper_ids is what the first call left
AcquireAgain ==
    /\ pc = "returned"
    /\ calls = 1
    /\ calls' = 2
    /\ first_result' = result
    /\ pc' = "arxiv"
    /\ all_papers' = <<>>
    /\ unique_papers' = <<>>
    /\ groups' = <<>>
    /\ enrich_log' = <<>>
    /\ result' = <<>>
    /\ papers_per_source' = 0
    /\ UNCHANGED <<paper_ids, merge_log, worldVars, rateVars, clusterVars>>
    /\ LaterUnchangedExcept("repeat")

NextRepeat == AcquireAgain \/ NextAcq

SpecRepeat == InitRepeat /\ [][NextRepeat]_vars

-----------------------------------------------------------------------------
(* Claims about repeated acquisition *)

\* the ids of the papers of a result list, in order
IdsOf(papers) == [i \in DOMAIN papers |-> papers[i].id]

\* C28 (as claimed): two successive acquire_papers calls on one manager, with
\* the same query and the same answers of the sources, return the same
\* papers: nothing kept by the manager between the calls makes the second
\* call drop papers the first returned.
C28_AcquireRepeatable ==
    (calls = 2 /\ pc = "returned") => Range(IdsOf(result)) = Range(IdsOf(first_result))

-----------------------------------------------------------------------------
(* Claims about the status of a project and about resuming it *)

HasType(es, t) == \E i \in DOMAIN es : es[i].type = t

\* C29 (as claimed): completion and failure exclude each other: no changelog
\* written by one process_query run holds both a reports_generated entry and
\* an error entry, so get_project_status never reports is_completed and
\* has_error together.
C29_CompletedExcludesError ==
    /\ \A p \in Projects :
         ~(HasType(changelog_file[p], "reports_generated") /\ HasType(changelog_file[p], "error"))
    /\ (pc = "status_done" /\ outcome = "returned") =>
         ~(status.is_completed /\ status.has_error)

\* C30: resume_research(P) appends nothing to the changelog of P: from the
\* resume on, every entry of the re-run, its error entry included, goes to
\* the file of the new project id and the file of P, from which the status
\* of P is computed, stays as it was.
C30_ResumeLeavesProjectAlone ==
    [][via_resume' => changelog_file'["first"] = changelog_file["first"]]_vars

\* a resumed run that failed: its error entry is in the file of the new
\* project, the file of the resumed project still ends with its own last entry
C30_Witness ==
    /\ via_resume
    /\ RunEnded
    /\ outcome = "PipelineError"
    /\ HasType(changelog_file["resumed"], "error")
    /\ changelog_file["first"] # <<>>
    /\ HasType(changelog_file["first"], "query_received")

====
